---- MODULE Spec2Model ----
(***************************************************************************)
(* Model of the jim/dan evaluator runtime: dsl/eval/evaluator.go (the       *)
(* Evaluator with scheduler and bus adapter, lines 1-285),                  *)
(* dsl/eval/schedule.go (lines 1-144), dsl/eval/mqtt.go and the smarthome   *)
(* client with per-topic subscription objects.                              *)
(*                                                                         *)
(* Goroutines are tasks: the Eval caller (Main), one task per scheduled     *)
(* event and per `when` subscription (HTask), one per time.AfterFunc        *)
(* (DTask), the paho delivery goroutine (Bus) and the caller of Close       *)
(* (Closer).  Mutexes are variables holding the owning task.  A task that   *)
(* evaluates has a list of frames todo[t]: the statements still to run,     *)
(* each with the scene state it runs under, plus the positions inside       *)
(* sceneState.Stop, schedule.remove and client.Subscribe where the code can *)
(* block.                                                                   *)
(***************************************************************************)
EXTENDS Integers, Sequences, FiniteSets, TLC

\* ------------------------------------------------------------------ bounds
MaxFire == 2      \* timer expirations delivered by the clock
MaxEvents == 1    \* status events delivered by the broker
MaxClose == 2     \* calls of Evaluator.Close
MaxDepth == 2     \* nested evalStartScene calls before the goroutine stack overflows
MaxTime == 4      \* the clock stops here
MaxHour == 13     \* hours of the time literals tried (the parser accepts 0..12)
MaxLen == 3       \* length of the inputs given to the lexer

\* ------------------------------------------------------------------ tasks
None == <<"none", 0>>
Main == <<"main", 0>>
Closer == <<"closer", 0>>
Bus == <<"bus", 0>>
HTask(i) == <<"h", i>>
DTask(j) == <<"d", j>>

\* ------------------------------------------------------------------ strings
\* A Go string is the sequence of its characters.
house == <<"h", "o", "u", "s", "e">>
flat == <<"f", "l", "a", "t">>
room1_light == <<"r", "o", "o", "m", "1", "/", "l", "i", "g", "h", "t">>
room2_light == <<"r", "o", "o", "m", "2", "/", "l", "i", "g", "h", "t">>
room2_switch == <<"r", "o", "o", "m", "2", "/", "s", "w", "i", "t", "c", "h">>


NoErr == [msg |-> "nil", at |-> 0]
Err(msg, at) == [msg |-> msg, at |-> at]

\* strings.Split(s, "/")
RECURSIVE Split(_)
Split(s) ==
    IF \A k \in 1..Len(s) : s[k] # "/"
    THEN <<s>>
    ELSE LET i == CHOOSE k \in 1..Len(s) : s[k] = "/" /\ \A m \in 1..(k - 1) : s[m] # "/"
         IN <<SubSeq(s, 1, i - 1)>> \o Split(SubSeq(s, i + 1, Len(s)))


\* evaluator.go splitPathMatch: cut at the first "/"; a path without one is
\* an error
splitPathMatch(p) ==
    IF \A k \in 1..Len(p) : p[k] # "/"
    THEN [toplevel |-> <<>>, device |-> <<>>, err |-> Err("invalid path", 0)]
    ELSE [toplevel |-> Split(p)[1],
          device |-> SubSeq(p, Len(Split(p)[1]) + 2, Len(p)),
          err |-> NoErr]


\* ------------------------------------------------------------------ AST
\* One record shape for every node; ref is used by the frames that stand for
\* a position inside a call (a handle or scene-state index).
Node(op, pos, name, value, wait, block) ==
    [op |-> op, pos |-> pos, name |-> name, value |-> value, wait |-> wait,
     block |-> block, ref |-> 0, path |-> <<"a", "/", "b">>]
WithPath(node, p) == [node EXCEPT !.path = p]
GetStatementNode(pos, p) == WithPath(Node("get", pos, "", "", FALSE, <<>>), p)
SetStatementNode(pos) == Node("set", pos, "", "on", FALSE, <<>>)
AtStatementNode(pos, word, block) == Node("at", pos, "", word, FALSE, block)
WhenStatementNode(pos, isValue, wait, block) == Node("when", pos, "", isValue, wait, block)
StartStatementNode(pos, name) == Node("start", pos, name, "", FALSE, <<>>)
StopStatementNode(pos, name) == Node("stop", pos, name, "", FALSE, <<>>)
SceneStatementNode(pos, name, block) == Node("scene", pos, name, "", FALSE, block)
Frame(op, ref, name) ==
    [op |-> op, pos |-> 0, name |-> name, value |-> "", wait |-> FALSE,
     block |-> <<>>, ref |-> ref, path |-> <<>>]

SceneNames == {"X", "Y"}
EventValues == {"on", "off"}

\* no time parsed, no cron expression built, no lexer made yet
NoTime == [Keyword |-> FALSE, Hour |-> 0, Minute |-> 0, AM |-> FALSE, err |-> "none"]
NoCron == [minute |-> -1, hour |-> -1, rest |-> ""]
NoLexer == [input |-> <<>>, pos |-> 0, start |-> 0, width |-> 0, state |-> "none",
            quote |-> "", spin |-> 0]

\* ------------------------------------------------------------------ registry
\* smarthome deviceID: the devices the broker can report a status for
deviceID(toplevel, item) == [Toplevel |-> toplevel, Item |-> item]
DeviceIDs ==
    {deviceID(house, room1_light), deviceID(house, room2_light),
     deviceID(house, room2_switch), deviceID(flat, room1_light)}
\* the value of a map lookup that finds nothing
Absent == "absent"
\* no call made yet
NoCall == [op |-> "none", stmt |-> "", path |-> <<>>, toplevel |-> <<>>,
           device |-> <<>>, value |-> "", out |-> <<>>, failed |-> {},
           res |-> [kind |-> "nil", items |-> <<>>], err |-> [msg |-> "nil", at |-> 0]]

\* The scripts the caller evaluates, one program (line) per Eval call.
\* README pattern: a scene with a timer and a subscription, started, then
\* stopped and started again.
Script1 ==
    << <<SceneStatementNode(1, "X",
            <<AtStatementNode(2, "sunrise", <<SetStatementNode(3)>>),
              WhenStatementNode(4, "on", FALSE, <<SetStatementNode(5)>>)>>)>>,
       <<StartStatementNode(6, "X")>>,
       <<StopStatementNode(7, "X"), StartStatementNode(8, "X")>> >>
\* A scene started twice, stopped twice.
Script2 ==
    << <<SceneStatementNode(1, "X",
            <<WhenStatementNode(2, "on", TRUE, <<SetStatementNode(3)>>)>>)>>,
       <<StartStatementNode(4, "X"), StartStatementNode(5, "X")>>,
       <<StopStatementNode(6, "X")>>,
       <<StopStatementNode(7, "X"), SetStatementNode(8)>> >>
\* Two scenes and the global scene; registrations made from callbacks.
Script3 ==
    << <<SceneStatementNode(1, "X",
            <<AtStatementNode(2, "sunset", <<WhenStatementNode(3, "on", FALSE, <<SetStatementNode(4)>>)>>)>>),
         SceneStatementNode(5, "Y",
            <<WhenStatementNode(6, "on", FALSE, <<StartStatementNode(7, "X")>>)>>)>>,
       <<StartStatementNode(8, "Y"),
         AtStatementNode(9, "sunrise", <<StopStatementNode(10, "Y")>>)>> >>
\* Timer callbacks that use the scheduler themselves.
Script4 ==
    << <<AtStatementNode(1, "sunrise", <<AtStatementNode(2, "sunset", <<SetStatementNode(3)>>)>>)>>,
       <<SceneStatementNode(4, "X",
            <<AtStatementNode(5, "sunrise", <<StopStatementNode(6, "X")>>)>>),
         StartStatementNode(7, "X")>> >>
\* A scene name defined again while its first definition is started.
Script5 ==
    << <<SceneStatementNode(1, "X", <<AtStatementNode(2, "sunrise", <<SetStatementNode(3)>>)>>),
         StartStatementNode(4, "X")>>,
       <<SceneStatementNode(5, "X", <<WhenStatementNode(6, "off", FALSE, <<SetStatementNode(7)>>)>>),
         StartStatementNode(8, "X")>>,
       <<StopStatementNode(9, "X")>> >>
\* A scene whose block starts itself.
Script6 ==
    << <<SceneStatementNode(1, "X", <<StartStatementNode(2, "X")>>)>>,
       <<StartStatementNode(3, "X")>> >>
\* A scene that is defined and stopped without ever being started, next to a
\* top-level timer.
Script7 ==
    << <<AtStatementNode(1, "sunrise", <<SetStatementNode(2)>>),
         SceneStatementNode(3, "X",
            <<AtStatementNode(4, "sunset", <<SetStatementNode(5)>>),
              WhenStatementNode(6, "on", FALSE, <<SetStatementNode(7)>>)>>)>>,
       <<StopStatementNode(8, "X")>> >>
\* A failing statement in the middle of a scene block that is started from
\* the middle of a program.
Script8 ==
    << <<SceneStatementNode(1, "X",
            <<SetStatementNode(2),
              AtStatementNode(3, "sunrise", <<SetStatementNode(4)>>),
              StopStatementNode(5, "Y"),
              SetStatementNode(6)>>)>>,
       <<SetStatementNode(7), StartStatementNode(8, "X"), SetStatementNode(9)>> >>
\* Paths without "/" in a started scene and at the top level, and a time word
\* that is neither sunrise nor sunset in a started scene.
Script9 ==
    << <<SceneStatementNode(1, "X",
            <<WhenStatementNode(2, "on", FALSE, <<SetStatementNode(3)>>),
              WithPath(WhenStatementNode(4, "on", FALSE, <<SetStatementNode(5)>>), <<"$">>),
              SetStatementNode(6)>>)>>,
       <<StartStatementNode(7, "X")>>,
       <<WithPath(SetStatementNode(8), <<"b">>)>>,
       <<GetStatementNode(9, <<"$">>), GetStatementNode(10, <<"a", "/", "b">>)>>,
       <<GetStatementNode(11, <<"a", "/", "b">>)>> >>
Script10 ==
    << <<SceneStatementNode(1, "Y",
            <<AtStatementNode(2, "sunrise", <<SetStatementNode(3)>>),
              AtStatementNode(4, "noon", <<SetStatementNode(5)>>),
              SetStatementNode(6)>>)>>,
       <<StartStatementNode(7, "Y")>>,
       <<AtStatementNode(8, "midnight", <<SetStatementNode(9)>>)>> >>
\* Two subscriptions on the one topic, registered by two programs.
Script11 ==
    << <<WhenStatementNode(1, "on", FALSE, <<SetStatementNode(2)>>)>>,
       <<WhenStatementNode(3, "on", FALSE, <<SetStatementNode(4)>>)>> >>
\* A scene whose timer callback registers a timer itself, started and stopped.
Script12 ==
    << <<SceneStatementNode(1, "X",
            <<AtStatementNode(2, "sunrise", <<AtStatementNode(3, "sunset", <<SetStatementNode(4)>>)>>)>>),
         StartStatementNode(5, "X")>>,
       <<StopStatementNode(6, "X")>> >>
Scripts == <<Script1, Script2, Script3, Script4, Script5, Script6, Script7, Script8,
             Script9, Script10, Script11, Script12>>
\* the status events the broker delivers while a script runs: one more for
\* the script of two subscriptions
EventBudget(sc) == IF Scripts[sc] = Script11 THEN MaxEvents + 1 ELSE MaxEvents

VARIABLES
    script,       \* index of the script being run
    nextLine,     \* index of the next program the caller passes to Eval
    pc,           \* task -> position
    todo,         \* task -> frames still to evaluate
    err,          \* task -> error of its current or last eval, "" if none
    mu,           \* Evaluator.mu: the task holding it, or None
    scenes,       \* Evaluator.scenes: name -> index into states, 0 if absent
    states,       \* the sceneState objects ever allocated; states[1] is globalScene
                  \* (name, runs, stopLen record what was done with the object:
                  \* the name it was defined under, the completed runs of its
                  \* block, the length of its cancel list when it was stopped)
    h,            \* the registrations ever made (schedule events, when subscriptions);
                  \* log records, for a subscription, the callbacks entered
                  \* ("in") and returned ("out") with the number of the status
                  \* event each was for
    d,            \* the time.AfterFunc tasks ever created (cancelled records
                  \* whether the subscription's cancel handle had been invoked
                  \* when the callback started the AfterFunc)
    schedMu,      \* schedule.mu
    schedClosed,  \* schedule.closed, and the closing channel closed
    events,       \* schedule.events
    cMu,          \* smarthome client.mu
    subMu,        \* subscription.mu of the status topic
    inMap,        \* the topic's subscription object is in client.subs
    subs,         \* subscription.subs
    busIdx,       \* handleStatusMessage: index of the sub it sends to, 0 when idle
    busMsg,       \* the value of the status message being delivered
    connected,    \* the broker connection is up
    closerPc,     \* position of the caller of Close
    closeCalls,   \* calls of Evaluator.Close that returned
    sets,         \* positions of the set statements published, in order
    fires,        \* timer expirations so far
    nEvents,      \* status events so far
    now,          \* the wall clock (time.Now), in ticks
    ops,          \* name -> the last two start/stop statements on it, with outcome
    panicked,     \* the process died of a run-time panic
    devices,      \* deviceLookup.devices: device id -> last value, Absent if none
    call,         \* the last call of the bus adapter or of Eval on a one-statement
                  \* program since the registry last changed: its arguments, the
                  \* underlying bus calls it made in order, which of them failed,
                  \* its result and its error
    timeNode,     \* the TimeNode parser.time returned last, or its error
    cron,         \* the expression evalAt passed to schedule.CronTimer for it
    lexer,        \* the lexer: input, pos, start, width, and the state function
                  \* it is in
    tokens        \* the tokens sent on lexer.tokens so far, and whether the
                  \* channel is closed

vars == <<script, nextLine, pc, todo, err, mu, scenes, states, h, d, schedMu,
          schedClosed, events, cMu, subMu, inMap, subs, busIdx, busMsg,
          connected, closerPc, closeCalls, sets, fires, nEvents, now, ops,
          panicked, devices, call, timeNode, cron, lexer, tokens>>

evalVars == <<pc, todo, err, mu>>
sceneVars == <<scenes, states>>
schedVars == <<schedMu, schedClosed, events>>
busVars == <<cMu, subMu, inMap, subs, busIdx, busMsg, connected>>
closerVars == <<closerPc, closeCalls>>
clientVars == <<devices, call>>
timeVars == <<timeNode, cron>>
lexVars == <<lexer, tokens>>
unitVars == <<clientVars, timeVars, lexVars>>
envVars == <<script, nextLine, fires, nEvents, now, unitVars>>

GlobalScene == 1

\* evaluator.go New: empty scene map, a fresh global scene, a new schedule.
Init ==
    /\ script \in 1..Len(Scripts)
    /\ nextLine = 1
    /\ pc = (Main :> "idle")
    /\ todo = (Main :> <<>>)
    /\ err = (Main :> "")
    /\ mu = None
    /\ scenes = [n \in SceneNames |-> 0]
    /\ states = <<[name |-> "global", block |-> <<>>, cancel |-> <<>>, runs |-> 0,
                  stopLen |-> -1]>>
    /\ h = <<>>
    /\ d = <<>>
    /\ schedMu = None
    /\ schedClosed = FALSE
    /\ events = <<>>
    /\ cMu = None
    /\ subMu = None
    /\ inMap = FALSE
    /\ subs = <<>>
    /\ busIdx = 0
    /\ busMsg = ""
    /\ connected = TRUE
    /\ closerPc = "idle"
    /\ closeCalls = 0
    /\ sets = <<>>
    /\ fires = 0
    /\ nEvents = 0
    /\ now = 0
    /\ ops = [n \in SceneNames |-> <<>>]
    /\ panicked = FALSE
    /\ devices = [id \in DeviceIDs |-> Absent]
    /\ call = NoCall
    /\ timeNode = NoTime
    /\ cron = NoCron
    /\ lexer = NoLexer
    /\ tokens = [sent |-> <<>>, closed |-> FALSE]

\* ------------------------------------------------------------------ helpers
Frames(scene, block) == [k \in 1..Len(block) |-> [scene |-> scene, st |-> block[k]]]
Remove(seq, x) == SelectSeq(seq, LAMBDA y : y # x)
Last(seq) == seq[Len(seq)]
Last2(seq, x) == IF Len(seq) = 0 THEN <<x>> ELSE <<seq[Len(seq)], x>>
Evaluating(t) == t \in DOMAIN pc /\ pc[t] = "eval"
Head1(t) == todo[t][1]
AtHead(t, op) == ~panicked /\ Evaluating(t) /\ mu = t /\ todo[t] # <<>> /\ Head1(t).st.op = op
Depth(t) == Len(SelectSeq(todo[t], LAMBDA f : f.st.op = "endstart"))

\* the statement at the head is done
Pop(t) == todo' = [todo EXCEPT ![t] = Tail(@)] /\ UNCHANGED err
\* evalNodeList as a plausible slip: the error is kept but the loop goes on
\* with the next statement
FailContinue(t, msg) == todo' = [todo EXCEPT ![t] = Tail(@)] /\ err' = [err EXCEPT ![t] = msg]
\* evalNodeList: the first error aborts the rest of the block and of every
\* enclosing block
Fail(t, msg) == todo' = [todo EXCEPT ![t] = <<>>] /\ err' = [err EXCEPT ![t] = msg]
Push(t, frames) == todo' = [todo EXCEPT ![t] = frames \o Tail(@)] /\ UNCHANGED err


\* ------------------------------------------------------------------ evaluator
TimeWords == {"sunrise", "sunset"}

\* timer.next(n): the first firing instant of the timer strictly after n.
\* The firing instants are the even ticks; an odd tick is a time between two
\* firing instants.
next(n) == n + 2 - (n % 2)

\* schedule.Add loop as a plausible slip: the next iteration is seeded with
\* the wake-up time
SeedNow(i) == now
\* schedule.Add loop, nextTime = t.next(nextTime): the seed of the next
\* iteration is the previous target
Seed(i) == h[i].nextTime

\* evaluator.go eval: take the mutex, walk the node under scene
evalNoLock(t, scene, node) ==
    /\ mu' = t
    /\ pc' = [pc EXCEPT ![t] = "eval"]
    /\ todo' = [todo EXCEPT ![t] = Frames(scene, node)]
    /\ err' = [err EXCEPT ![t] = ""]
eval(t, scene, node) ==
    /\ mu = None
    /\ mu' = t
    /\ pc' = [pc EXCEPT ![t] = "eval"]
    /\ todo' = [todo EXCEPT ![t] = Frames(scene, node)]
    /\ err' = [err EXCEPT ![t] = ""]

\* where a task goes when its eval returns
AfterEval(t) == IF t = Main THEN "idle" ELSE IF t[1] = "h" THEN "select" ELSE "done"

\* Evaluator.Eval: the caller evaluates the next program under the global scene
Eval ==
    /\ ~panicked
    /\ pc[Main] = "idle"
    /\ nextLine <= Len(Scripts[script])
    /\ eval(Main, GlobalScene, Scripts[script][nextLine])
    /\ nextLine' = nextLine + 1
    /\ UNCHANGED <<script, fires, nEvents, now, unitVars, sceneVars, h, d, schedVars, busVars,
                   closerVars, sets, ops, panicked>>

\* eval returns (deferred Unlock); a timer or subscription task loops back to
\* its select, a timer task after computing its next target
evalReturn(t) ==
    /\ ~panicked
    /\ Evaluating(t)
    /\ mu = t
    /\ todo[t] = <<>>
    /\ mu' = None
    /\ pc' = [pc EXCEPT ![t] = AfterEval(t)]
    /\ h' = IF t[1] = "h" /\ h[t[2]].kind = "at"
            THEN [h EXCEPT ![t[2]].nextTime = next(Seed(t[2]))]
            ELSE IF t[1] = "h"
            THEN [h EXCEPT ![t[2]].log = Append(@, <<"out", Last(@)[2]>>)]
            ELSE h
    /\ UNCHANGED <<todo, err, envVars, sceneVars, d, schedVars, busVars,
                   closerVars, sets, ops, panicked>>

\* evalSet -> splitPathMatch, client.Set -> Publish: a path without "/" is
\* an error; otherwise one set on the bus; a publish on a disconnected client
\* fails
evalSet(t) ==
    /\ AtHead(t, "set")
    /\ IF splitPathMatch(Head1(t).st.path).err # NoErr
       THEN Fail(t, "invalid path") /\ UNCHANGED sets
       ELSE IF connected
       THEN sets' = Append(sets, Head1(t).st.pos) /\ Pop(t)
       ELSE Fail(t, "not connected") /\ UNCHANGED sets
    /\ UNCHANGED <<pc, mu, envVars, sceneVars, h, d, schedVars, busVars,
                   closerVars, ops, panicked>>

\* evalDefineScene as a plausible slip: the block is run when it is defined
evalDefineSceneRuns(t) ==
    /\ AtHead(t, "scene")
    /\ LET n == Head1(t).st IN
        /\ states' = Append(states, [name |-> n.name, block |-> n.block,
                                     cancel |-> <<>>, runs |-> 0, stopLen |-> -1])
        /\ scenes' = [scenes EXCEPT ![n.name] = Len(states) + 1]
        /\ ops' = [ops EXCEPT ![n.name] = Last2(@, "scene")]
        /\ Push(t, Frames(Len(states) + 1, n.block))
    /\ UNCHANGED <<pc, mu, envVars, h, d, schedVars, busVars, closerVars, sets, panicked>>

\* evalDefineScene: a new sceneState with the block and no cancels is stored
\* under the name; the block is not run
evalDefineScene(t) ==
    /\ AtHead(t, "scene")
    /\ LET n == Head1(t).st IN
        /\ states' = Append(states, [name |-> n.name, block |-> n.block,
                                     cancel |-> <<>>, runs |-> 0, stopLen |-> -1])
        /\ scenes' = [scenes EXCEPT ![n.name] = Len(states) + 1]
        /\ ops' = [ops EXCEPT ![n.name] = Last2(@, "scene")]
    /\ Pop(t)
    /\ UNCHANGED <<pc, mu, envVars, h, d, schedVars, busVars, closerVars, sets, panicked>>

\* evalStartScene as a plausible slip: the block is evaluated with e.eval,
\* which locks the evaluator mutex the task already holds
evalStartSceneRelock(t) ==
    /\ AtHead(t, "start")
    /\ LET n == Head1(t).st
           s == scenes[n.name] IN
        IF s = 0
        THEN /\ Fail(t, "unknown scene")
             /\ ops' = [ops EXCEPT ![n.name] = Last2(@, "start:err")]
             /\ UNCHANGED pc
        ELSE /\ pc' = [pc EXCEPT ![t] = "lock"]
             /\ UNCHANGED <<todo, err, ops>>
    /\ UNCHANGED <<mu, envVars, sceneVars, h, d, schedVars, busVars,
                   closerVars, sets, panicked>>

\* evalStartScene as a plausible slip: the block runs under the global scene
evalStartSceneGlobal(t) ==
    /\ AtHead(t, "start")
    /\ LET n == Head1(t).st
           s == scenes[n.name] IN
        IF s = 0
        THEN /\ Fail(t, "unknown scene")
             /\ ops' = [ops EXCEPT ![n.name] = Last2(@, "start:err")]
             /\ UNCHANGED panicked
        ELSE /\ Push(t, Frames(GlobalScene, states[s].block) \o
                        <<[scene |-> s, st |-> Frame("endstart", s, n.name)]>>)
             /\ ops' = [ops EXCEPT ![n.name] = Last2(@, "start:ok")]
             /\ UNCHANGED panicked
    /\ UNCHANGED <<pc, mu, envVars, sceneVars, h, d, schedVars, busVars,
                   closerVars, sets>>

\* evalStartScene as a plausible slip: every start begins with an empty
\* cancel list
evalStartSceneFresh(t) ==
    /\ AtHead(t, "start")
    /\ LET n == Head1(t).st
           s == scenes[n.name] IN
        IF s = 0
        THEN /\ Fail(t, "unknown scene")
             /\ ops' = [ops EXCEPT ![n.name] = Last2(@, "start:err")]
             /\ UNCHANGED <<panicked, states>>
        ELSE /\ Push(t, Frames(s, states[s].block) \o
                        <<[scene |-> s, st |-> Frame("endstart", s, n.name)]>>)
             /\ states' = [states EXCEPT ![s].cancel = <<>>]
             /\ ops' = [ops EXCEPT ![n.name] = Last2(@, "start:ok")]
             /\ UNCHANGED panicked
    /\ UNCHANGED <<pc, mu, envVars, scenes, h, d, schedVars, busVars,
                   closerVars, sets>>

\* evalStartScene: unknown name fails; otherwise the scene's block is
\* evaluated under the scene's own state (a nested evalWithLock call: the
\* goroutine stack grows by one frame, and overflows past MaxDepth)
evalStartScene(t) ==
    /\ AtHead(t, "start")
    /\ LET n == Head1(t).st
           s == scenes[n.name] IN
        IF s = 0
        THEN /\ Fail(t, "unknown scene")
             /\ ops' = [ops EXCEPT ![n.name] = Last2(@, "start:err")]
             /\ UNCHANGED panicked
        ELSE IF Depth(t) >= MaxDepth
        THEN /\ panicked' = TRUE
             /\ UNCHANGED <<todo, err, ops>>
        ELSE /\ Push(t, Frames(s, states[s].block) \o
                        <<[scene |-> s, st |-> Frame("endstart", s, n.name)]>>)
             /\ ops' = [ops EXCEPT ![n.name] = Last2(@, "start:ok")]
             /\ UNCHANGED panicked
    /\ UNCHANGED <<pc, mu, envVars, sceneVars, h, d, schedVars, busVars,
                   closerVars, sets>>

\* evalStartScene returns without error: one more run of the block is complete
endStart(t) ==
    /\ AtHead(t, "endstart")
    /\ states' = [states EXCEPT ![Head1(t).st.ref].runs = @ + 1]
    /\ Pop(t)
    /\ UNCHANGED <<pc, mu, envVars, scenes, h, d, schedVars, busVars,
                   closerVars, sets, ops, panicked>>

CancelFrames(scene, list) ==
    [k \in 1..Len(list) |-> [scene |-> scene, st |-> Frame("cancel", list[k], "")]]

\* sceneState.Stop as a plausible slip: the global scene's handles are
\* cancelled along with the scene's own
StopFramesGlobalToo(t) ==
    LET n == Head1(t).st
        s == scenes[n.name] IN
    CancelFrames(Head1(t).scene, states[s].cancel \o states[GlobalScene].cancel) \o
        <<[scene |-> Head1(t).scene, st |-> Frame("delete", s, n.name)]>>

\* evalStopScene as a plausible slip: every scene in the map is stopped, not
\* the named one only
StopFramesOthersToo(t) ==
    LET n == Head1(t).st
        s == scenes[n.name]
        others == {m \in SceneNames : scenes[m] # 0 /\ m # n.name}
        RECURSIVE Lists(_)
        Lists(S) == IF S = {} THEN <<>>
                    ELSE LET m == CHOOSE x \in S : TRUE
                         IN states[scenes[m]].cancel \o Lists(S \ {m}) IN
    CancelFrames(Head1(t).scene, states[s].cancel \o Lists(others)) \o
        <<[scene |-> Head1(t).scene, st |-> Frame("delete", s, n.name)]>>

\* sceneState.Stop as a plausible slip: the loop stops one handle short
StopFramesShort(t) ==
    LET n == Head1(t).st
        s == scenes[n.name]
        list == states[s].cancel IN
    CancelFrames(Head1(t).scene, SubSeq(list, 1, Len(list) - 1)) \o
        <<[scene |-> Head1(t).scene, st |-> Frame("delete", s, n.name)]>>

\* evalStopScene, known name: s.Stop() ranges over s.cancel, then the name is
\* deleted from the map
StopFrames(t) ==
    LET n == Head1(t).st
        s == scenes[n.name] IN
    CancelFrames(Head1(t).scene, states[s].cancel) \o
        <<[scene |-> Head1(t).scene, st |-> Frame("delete", s, n.name)]>>

\* evalStopScene as a plausible slip: stopping an unknown scene is a no-op
evalStopSceneLenient(t) ==
    /\ AtHead(t, "stop")
    /\ LET n == Head1(t).st IN
        IF scenes[n.name] = 0
        THEN /\ Pop(t)
             /\ ops' = [ops EXCEPT ![n.name] = Last2(@, "stop:ok")]
        ELSE /\ Push(t, StopFrames(t))
             /\ UNCHANGED ops
    /\ UNCHANGED <<pc, mu, envVars, sceneVars, h, d, schedVars, busVars,
                   closerVars, sets, panicked>>

\* evalStopScene: unknown name fails, otherwise enter s.Stop()
evalStopScene(t) ==
    /\ AtHead(t, "stop")
    /\ LET n == Head1(t).st IN
        IF scenes[n.name] = 0
        THEN /\ Fail(t, "unknown scene")
             /\ ops' = [ops EXCEPT ![n.name] = Last2(@, "stop:err")]
        ELSE /\ Push(t, StopFrames(t))
             /\ UNCHANGED ops
    /\ UNCHANGED <<pc, mu, envVars, sceneVars, h, d, schedVars, busVars,
                   closerVars, sets, panicked>>

\* sceneState.Stop, one iteration: c().  A scheduler handle is
\* close(cancel); s.remove(e), a subscription handle is close(cancel).
\* Closing a closed channel panics.  remove needs schedule.mu: when it is
\* taken the task stays inside remove.
sceneStateStop(t) ==
    /\ AtHead(t, "cancel")
    /\ LET i == Head1(t).st.ref IN
        IF h[i].cancelled > 0
        THEN /\ panicked' = TRUE
             /\ h' = [h EXCEPT ![i].cancelled = @ + 1]
             /\ UNCHANGED <<todo, err, events>>
        ELSE /\ h' = [h EXCEPT ![i].cancelled = 1]
             /\ UNCHANGED panicked
             /\ IF h[i].kind = "at" /\ schedMu # None
                THEN /\ Push(t, <<[scene |-> Head1(t).scene, st |-> Frame("remove", i, "")]>>)
                     /\ UNCHANGED events
                ELSE /\ Pop(t)
                     /\ events' = IF h[i].kind = "at" THEN Remove(events, i) ELSE events
    /\ UNCHANGED <<pc, mu, envVars, sceneVars, d, schedMu, schedClosed, busVars,
                   closerVars, sets, ops>>

\* schedule.remove once schedule.mu is free
scheduleRemove(t) ==
    /\ AtHead(t, "remove")
    /\ schedMu = None
    /\ events' = Remove(events, Head1(t).st.ref)
    /\ Pop(t)
    /\ UNCHANGED <<pc, mu, envVars, sceneVars, h, d, schedMu, schedClosed, busVars,
                   closerVars, sets, ops, panicked>>

\* evalStopScene as a plausible slip: after s.Stop() the name stays in the
\* scene map
sceneDeleteKeeps(t) ==
    /\ AtHead(t, "delete")
    /\ LET name == Head1(t).st.name IN
        /\ ops' = [ops EXCEPT ![name] = Last2(@, "stop:ok")]
        /\ states' = [states EXCEPT ![Head1(t).st.ref].stopLen =
                                   Len(states[Head1(t).st.ref].cancel)]
    /\ Pop(t)
    /\ UNCHANGED <<pc, mu, envVars, scenes, h, d, schedVars, busVars,
                   closerVars, sets, panicked>>

\* evalStopScene after s.Stop(): delete(e.scenes, name)
sceneDelete(t) ==
    /\ AtHead(t, "delete")
    /\ LET name == Head1(t).st.name IN
        /\ scenes' = [scenes EXCEPT ![name] = 0]
        /\ ops' = [ops EXCEPT ![name] = Last2(@, "stop:ok")]
        /\ states' = [states EXCEPT ![Head1(t).st.ref].stopLen =
                                   Len(states[Head1(t).st.ref].cancel)]
    /\ Pop(t)
    /\ UNCHANGED <<pc, mu, envVars, h, d, schedVars, busVars,
                   closerVars, sets, panicked>>

\* evalAt as a plausible slip: the switch on the time word has no default and
\* an unknown word goes on with a sun timer
evalAtAnyWord(t) ==
    /\ AtHead(t, "at")
    /\ LET n == Head1(t).st
           s == Head1(t).scene
           i == Len(h) + 1 IN
        IF FALSE
        THEN /\ Fail(t, "unknown time word")
             /\ UNCHANGED <<pc, h, events, states>>
        ELSE /\ schedMu = None
             /\ IF schedClosed
                THEN /\ Fail(t, "schedule closed")
                     /\ UNCHANGED <<pc, h, events, states>>
                ELSE /\ h' = Append(h, [kind |-> "at", st |-> n, scene |-> s,
                                        cancelled |-> 0, calls |-> 0, timerC |-> FALSE,
                                        t0 |-> now, nextTime |-> next(now),
                                        log |-> <<>>])
                     /\ events' = Append(events, i)
                     /\ states' = [states EXCEPT ![s].cancel = Append(@, i)]
                     /\ pc' = (HTask(i) :> "select") @@ pc
                     /\ todo' = (HTask(i) :> <<>>) @@ [todo EXCEPT ![t] = Tail(@)]
                     /\ err' = (HTask(i) :> "") @@ err
    /\ UNCHANGED <<mu, envVars, scenes, d, schedMu, schedClosed, busVars,
                   closerVars, sets, ops, panicked>>

\* schedule.Add as a plausible slip: the closed flag is not looked at and the
\* event is added to a closed schedule
evalAtOnClosed(t) ==
    /\ AtHead(t, "at")
    /\ LET n == Head1(t).st
           s == Head1(t).scene
           i == Len(h) + 1 IN
        IF n.value \notin TimeWords
        THEN /\ Fail(t, "unknown time word")
             /\ UNCHANGED <<pc, h, events, states>>
        ELSE /\ schedMu = None
             /\ IF FALSE
                THEN /\ Fail(t, "schedule closed")
                     /\ UNCHANGED <<pc, h, events, states>>
                ELSE /\ h' = Append(h, [kind |-> "at", st |-> n, scene |-> s,
                                        cancelled |-> 0, calls |-> 0, timerC |-> FALSE,
                                        t0 |-> now, nextTime |-> next(now),
                                        log |-> <<>>])
                     /\ events' = Append(events, i)
                     /\ states' = [states EXCEPT ![s].cancel = Append(@, i)]
                     /\ pc' = (HTask(i) :> "select") @@ pc
                     /\ todo' = (HTask(i) :> <<>>) @@ [todo EXCEPT ![t] = Tail(@)]
                     /\ err' = (HTask(i) :> "") @@ err
    /\ UNCHANGED <<mu, envVars, scenes, d, schedMu, schedClosed, busVars,
                   closerVars, sets, ops, panicked>>

\* evalAt: the time word is checked, then schedule.Add (under schedule.mu)
\* fails on a closed schedule or spawns the timer task and appends the event;
\* the cancel handle is appended to the scene the statement runs under
evalAt(t) ==
    /\ AtHead(t, "at")
    /\ LET n == Head1(t).st
           s == Head1(t).scene
           i == Len(h) + 1 IN
        IF n.value \notin TimeWords
        THEN /\ Fail(t, "unknown time word")
             /\ UNCHANGED <<pc, h, events, states>>
        ELSE /\ schedMu = None
             /\ IF schedClosed
                THEN /\ Fail(t, "schedule closed")
                     /\ UNCHANGED <<pc, h, events, states>>
                ELSE /\ h' = Append(h, [kind |-> "at", st |-> n, scene |-> s,
                                        cancelled |-> 0, calls |-> 0, timerC |-> FALSE,
                                        t0 |-> now, nextTime |-> next(now),
                                        log |-> <<>>])
                     /\ events' = Append(events, i)
                     /\ states' = [states EXCEPT ![s].cancel = Append(@, i)]
                     /\ pc' = (HTask(i) :> "select") @@ pc
                     /\ todo' = (HTask(i) :> <<>>) @@ [todo EXCEPT ![t] = Tail(@)]
                     /\ err' = (HTask(i) :> "") @@ err
    /\ UNCHANGED <<mu, envVars, scenes, d, schedMu, schedClosed, busVars,
                   closerVars, sets, ops, panicked>>

\* ------------------------------------------------------------------ timer tasks
IsTimer(i) == i \in DOMAIN h /\ h[i].kind = "at"
IsWhen(i) == i \in DOMAIN h /\ h[i].kind = "when"

\* the clock: time passes
tick ==
    /\ ~panicked
    /\ now < MaxTime
    /\ \E i \in DOMAIN h : h[i].kind = "at" /\ pc[HTask(i)] # "done"
    /\ now' = now + 1
    /\ UNCHANGED <<script, nextLine, fires, nEvents, unitVars, evalVars, sceneVars,
                   h, d, schedVars, busVars, closerVars, sets, ops, panicked>>

\* the clock: the time.Timer of a sleeping task expires once its target is
\* reached
timerExpire(i) ==
    /\ ~panicked
    /\ IsTimer(i)
    /\ pc[HTask(i)] = "select"
    /\ ~h[i].timerC
    /\ now >= h[i].nextTime
    /\ fires < MaxFire
    /\ fires' = fires + 1
    /\ h' = [h EXCEPT ![i].timerC = TRUE]
    /\ UNCHANGED <<script, nextLine, nEvents, now, unitVars, evalVars, sceneVars, d, schedVars,
                   busVars, closerVars, sets, ops, panicked>>

\* schedule.Add goroutine, select cases <-s.closing and <-cancel: the task ends
timerStop(i) ==
    /\ ~panicked
    /\ IsTimer(i)
    /\ pc[HTask(i)] = "select"
    /\ schedClosed \/ h[i].cancelled > 0
    /\ pc' = [pc EXCEPT ![HTask(i)] = "done"]
    /\ UNCHANGED <<todo, err, mu, envVars, sceneVars, h, d, schedVars, busVars,
                   closerVars, sets, ops, panicked>>

\* schedule.Add goroutine, select case <-timer.C: callback(nextTime) is called.
\* Go's select picks any ready case, so this is enabled whatever cancel and
\* closing are.
timerFire(i) ==
    /\ ~panicked
    /\ IsTimer(i)
    /\ pc[HTask(i)] = "select"
    /\ h[i].timerC
    /\ h' = [h EXCEPT ![i].timerC = FALSE, ![i].calls = @ + 1]
    /\ pc' = [pc EXCEPT ![HTask(i)] = "cb"]
    /\ UNCHANGED <<todo, err, mu, envVars, sceneVars, d, schedVars, busVars,
                   closerVars, sets, ops, panicked>>

\* evalAt's callback: e.eval(scene, n.Block)
atCallback(i) ==
    /\ ~panicked
    /\ IsTimer(i)
    /\ pc[HTask(i)] = "cb"
    /\ eval(HTask(i), h[i].scene, h[i].st.block)
    /\ UNCHANGED <<envVars, sceneVars, h, d, schedVars, busVars, closerVars,
                   sets, ops, panicked>>

\* ------------------------------------------------------------------ bus adapter
\* client.When after Subscribe returned: the task is spawned with its own
\* cancel channel and the cancel handle is appended to the scene
Register(t, n, s) ==
    LET i == Len(h) + 1 IN
    /\ h' = Append(h, [kind |-> "when", st |-> [n EXCEPT !.op = "when"], scene |-> s,
                       cancelled |-> 0, calls |-> 0, timerC |-> FALSE,
                       t0 |-> 0, nextTime |-> 0, log |-> <<>>])
    /\ subs' = Append(subs, i)
    /\ states' = [states EXCEPT ![s].cancel = Append(@, i)]
    /\ pc' = (HTask(i) :> "select") @@ pc
    /\ todo' = (HTask(i) :> <<>>) @@ [todo EXCEPT ![t] = Tail(@)]
    /\ err' = (HTask(i) :> "") @@ err

\* evalWhen -> client.When -> smarthome client.Subscribe: under client.mu the
\* topic's subscription object is looked up or created (a broker subscribe,
\* which fails on a closed connection); then subscription.subscribe() needs
\* subscription.mu, and while that is taken the task waits holding client.mu
\* evalWhen as a plausible slip: the path is handed on without the split
evalWhenNoSplit(t) ==
    /\ AtHead(t, "when")
    /\ cMu = None
    /\ LET n == Head1(t).st
           s == Head1(t).scene IN
        IF ~inMap /\ ~connected
        THEN /\ Fail(t, "not connected")
             /\ UNCHANGED <<pc, h, states, cMu, inMap, subs>>
        ELSE /\ inMap' = TRUE
             /\ IF subMu = None
                THEN Register(t, n, s) /\ UNCHANGED cMu
                ELSE /\ cMu' = t
                     /\ Push(t, <<[scene |-> s, st |-> [n EXCEPT !.op = "subscribe"]]>>)
                     /\ UNCHANGED <<pc, h, states, subs>>
    /\ UNCHANGED <<mu, envVars, scenes, d, schedVars, subMu, busIdx, busMsg,
                   connected, closerVars, sets, ops, panicked>>

\* evalWhen: a path without "/" is an error before anything is subscribed;
\* otherwise client.When -> smarthome client.Subscribe as described above
evalWhen(t) ==
    /\ AtHead(t, "when")
    /\ LET n == Head1(t).st
           s == Head1(t).scene IN
        IF splitPathMatch(n.path).err # NoErr
        THEN /\ Fail(t, "invalid path")
             /\ UNCHANGED <<pc, h, states, cMu, inMap, subs>>
        ELSE /\ cMu = None
             /\ IF ~inMap /\ ~connected
                THEN /\ Fail(t, "not connected")
                     /\ UNCHANGED <<pc, h, states, cMu, inMap, subs>>
                ELSE /\ inMap' = TRUE
                     /\ IF subMu = None
                        THEN Register(t, n, s) /\ UNCHANGED cMu
                        ELSE /\ cMu' = t
                             /\ Push(t, <<[scene |-> s, st |-> [n EXCEPT !.op = "subscribe"]]>>)
                             /\ UNCHANGED <<pc, h, states, subs>>
    /\ UNCHANGED <<mu, envVars, scenes, d, schedVars, subMu, busIdx, busMsg,
                   connected, closerVars, sets, ops, panicked>>

\* evalGet -> splitPathMatch, client.Get: a path without "/" is an error;
\* otherwise the adapter's get.  The registry of this evaluator is empty, so
\* the get is a live one: smarthome client.Get subscribes to the device's
\* own topic under client.mu, publishes the request and waits for the answer
\* or its 5 second timeout; the value is not kept.
evalGet(t) ==
    /\ AtHead(t, "get")
    /\ IF splitPathMatch(Head1(t).st.path).err # NoErr
       THEN Fail(t, "invalid path")
       ELSE /\ cMu = None
            /\ IF ~connected
               THEN Fail(t, "not connected")
               ELSE Pop(t) \/ Fail(t, "timed out waiting for get response")
    /\ UNCHANGED <<pc, mu, envVars, sceneVars, h, d, schedVars, busVars,
                   closerVars, sets, ops, panicked>>

\* subscription.subscribe once subscription.mu is free, and the rest of When
subscriptionSubscribe(t) ==
    /\ AtHead(t, "subscribe")
    /\ cMu = t
    /\ subMu = None
    /\ Register(t, Head1(t).st, Head1(t).scene)
    /\ cMu' = None
    /\ UNCHANGED <<mu, envVars, scenes, d, schedVars, subMu, inMap, busIdx, busMsg,
                   connected, closerVars, sets, ops, panicked>>

\* the broker delivers a status message: paho calls handleStatusMessage,
\* which takes subscription.mu for the whole fan-out
handleStatusMessage(v) ==
    /\ ~panicked
    /\ connected
    /\ inMap
    /\ busIdx = 0
    /\ subMu = None
    /\ nEvents < EventBudget(script)
    /\ nEvents' = nEvents + 1
    /\ subMu' = Bus
    /\ busIdx' = 1
    /\ busMsg' = v
    /\ UNCHANGED <<script, nextLine, fires, now, unitVars, evalVars, sceneVars, h, d, schedVars,
                   cMu, inMap, subs, connected, closerVars, sets, ops, panicked>>

\* client.When as a plausible slip: the callback runs on every message,
\* whatever its value
statusSendAny ==
    /\ ~panicked
    /\ busIdx >= 1
    /\ busIdx <= Len(subs)
    /\ LET i == subs[busIdx]
           j == Len(d) + 1 IN
        /\ pc[HTask(i)] = "select"
        /\ h' = [h EXCEPT ![i].calls = @ + 1,
                          ![i].log = @ \o IF h[i].st.wait
                                          THEN <<<<"in", nEvents>>, <<"out", nEvents>>>>
                                          ELSE <<<<"in", nEvents>>>>]
        /\ IF h[i].st.wait
           THEN /\ d' = Append(d, [scene |-> h[i].scene, block |-> h[i].st.block,
                                   from |-> i, cancelled |-> h[i].cancelled])
                /\ pc' = (DTask(j) :> "wait") @@ pc
                /\ todo' = (DTask(j) :> <<>>) @@ todo
                /\ err' = (DTask(j) :> "") @@ err
           ELSE /\ pc' = [pc EXCEPT ![HTask(i)] = "cb"]
                /\ UNCHANGED <<d, todo, err>>
    /\ busIdx' = busIdx + 1
    /\ UNCHANGED <<mu, envVars, sceneVars, schedVars, cMu, subMu, inMap, subs,
                   busMsg, connected, closerVars, sets, ops, panicked>>

\* client.When as a plausible slip: the callback is started with `go
\* callback()`, so the loop receives the next event while the callback of
\* the one before has not returned
statusSendAsync ==
    /\ ~panicked
    /\ busIdx >= 1
    /\ busIdx <= Len(subs)
    /\ LET i == subs[busIdx]
           j == Len(d) + 1 IN
        /\ pc[HTask(i)] \in {"select", "cb"}
        /\ IF busMsg # h[i].st.value
           THEN UNCHANGED <<h, d, pc, todo, err>>
           ELSE /\ h' = [h EXCEPT ![i].calls = @ + 1,
                                  ![i].log = @ \o IF h[i].st.wait
                                                  THEN <<<<"in", nEvents>>, <<"out", nEvents>>>>
                                                  ELSE <<<<"in", nEvents>>>>]
                /\ IF h[i].st.wait
                   THEN /\ d' = Append(d, [scene |-> h[i].scene, block |-> h[i].st.block,
                                           from |-> i, cancelled |-> h[i].cancelled])
                        /\ pc' = (DTask(j) :> "wait") @@ pc
                        /\ todo' = (DTask(j) :> <<>>) @@ todo
                        /\ err' = (DTask(j) :> "") @@ err
                   ELSE /\ pc' = [pc EXCEPT ![HTask(i)] = "cb"]
                        /\ UNCHANGED <<d, todo, err>>
    /\ busIdx' = busIdx + 1
    /\ UNCHANGED <<mu, envVars, sceneVars, schedVars, cMu, subMu, inMap, subs,
                   busMsg, connected, closerVars, sets, ops, panicked>>

\* handleStatusMessage, sub.ch <- sm on the unbuffered channel, together with
\* the receiving select case of the When goroutine: callback() runs iff the
\* value equals the expected one.  The callback of a `when` with a wait only
\* starts a time.AfterFunc and returns.
statusSend ==
    /\ ~panicked
    /\ busIdx >= 1
    /\ busIdx <= Len(subs)
    /\ LET i == subs[busIdx]
           j == Len(d) + 1 IN
        /\ pc[HTask(i)] = "select"
        /\ IF busMsg # h[i].st.value
           THEN UNCHANGED <<h, d, pc, todo, err>>
           ELSE /\ h' = [h EXCEPT ![i].calls = @ + 1,
                                  ![i].log = @ \o IF h[i].st.wait
                                                  THEN <<<<"in", nEvents>>, <<"out", nEvents>>>>
                                                  ELSE <<<<"in", nEvents>>>>]
                /\ IF h[i].st.wait
                   THEN /\ d' = Append(d, [scene |-> h[i].scene, block |-> h[i].st.block,
                                           from |-> i, cancelled |-> h[i].cancelled])
                        /\ pc' = (DTask(j) :> "wait") @@ pc
                        /\ todo' = (DTask(j) :> <<>>) @@ todo
                        /\ err' = (DTask(j) :> "") @@ err
                   ELSE /\ pc' = [pc EXCEPT ![HTask(i)] = "cb"]
                        /\ UNCHANGED <<d, todo, err>>
    /\ busIdx' = busIdx + 1
    /\ UNCHANGED <<mu, envVars, sceneVars, schedVars, cMu, subMu, inMap, subs,
                   busMsg, connected, closerVars, sets, ops, panicked>>

\* handleStatusMessage returns (deferred Unlock)
statusDone ==
    /\ ~panicked
    /\ busIdx > Len(subs)
    /\ busIdx' = 0
    /\ subMu' = None
    /\ UNCHANGED <<evalVars, envVars, sceneVars, h, d, schedVars, cMu, inMap, subs,
                   busMsg, connected, closerVars, sets, ops, panicked>>

\* When goroutine, select case <-cancel: return, which runs the deferred
\* sub.Unsubscribe()
whenCancel(i) ==
    /\ ~panicked
    /\ IsWhen(i)
    /\ pc[HTask(i)] = "select"
    /\ h[i].cancelled > 0
    /\ pc' = [pc EXCEPT ![HTask(i)] = "unsub"]
    /\ UNCHANGED <<todo, err, mu, envVars, sceneVars, h, d, schedVars, busVars,
                   closerVars, sets, ops, panicked>>

\* evalWhen's callback without wait: e.eval(scene, w.Block)
whenCallback(i) ==
    /\ ~panicked
    /\ IsWhen(i)
    /\ pc[HTask(i)] = "cb"
    /\ eval(HTask(i), h[i].scene, h[i].st.block)
    /\ UNCHANGED <<envVars, sceneVars, h, d, schedVars, busVars, closerVars,
                   sets, ops, panicked>>

\* Subscription.Unsubscribe -> subscription.unsubscribe: under subscription.mu
\* the sub is filtered out; when none is left client.unsubscribe takes
\* client.mu and deletes the topic from client.subs.  While client.mu is taken
\* the task waits inside client.unsubscribe ("unsub2"), holding subscription.mu.
subscriptionUnsubscribe(i) ==
    /\ ~panicked
    /\ IsWhen(i)
    /\ pc[HTask(i)] \in {"unsub", "unsub2"}
    /\ IF pc[HTask(i)] = "unsub"
       THEN /\ subMu = None
            /\ subs' = Remove(subs, i)
            /\ IF subs' # <<>>
               THEN /\ pc' = [pc EXCEPT ![HTask(i)] = "done"]
                    /\ UNCHANGED <<subMu, inMap>>
               ELSE IF cMu = None
               THEN /\ pc' = [pc EXCEPT ![HTask(i)] = "done"]
                    /\ inMap' = FALSE
                    /\ UNCHANGED subMu
               ELSE /\ pc' = [pc EXCEPT ![HTask(i)] = "unsub2"]
                    /\ subMu' = HTask(i)
                    /\ UNCHANGED inMap
       ELSE /\ cMu = None
            /\ inMap' = FALSE
            /\ subMu' = None
            /\ pc' = [pc EXCEPT ![HTask(i)] = "done"]
            /\ UNCHANGED subs
    /\ UNCHANGED <<todo, err, mu, envVars, sceneVars, h, d, schedVars, cMu, busIdx,
                   busMsg, connected, closerVars, sets, ops, panicked>>

\* the func given to time.AfterFunc: e.eval(scene, w.Block)
afterFunc(j) ==
    /\ ~panicked
    /\ pc[DTask(j)] = "wait"
    /\ eval(DTask(j), d[j].scene, d[j].block)
    \* the timer has fired: the mark of its pending time is no longer read
    /\ d' = [d EXCEPT ![j].cancelled = 0]
    /\ UNCHANGED <<envVars, sceneVars, h, schedVars, busVars, closerVars,
                   sets, ops, panicked>>

\* ------------------------------------------------------------------ Upcoming
\* The formatter: a human-readable text of a block, here the words of its
\* statements in order.
Format(block) == [k \in 1..Len(block) |-> <<block[k].op, block[k].name, block[k].value>>]

\* schedule.Upcoming as a plausible slip: the time computed when the event
\* was added is reported
UpcomingStale(n) ==
    [k \in 1..Len(events) |->
        [Time |-> next(h[events[k]].t0),
         Description |-> Format(h[events[k]].st.block)]]
\* schedule.Upcoming(n), under schedule.mu: one Event per entry of s.events,
\* with the time e.t.next(n) and the description given to Add
Upcoming(n) ==
    [k \in 1..Len(events) |->
        [Time |-> next(n),
         Description |-> Format(h[events[k]].st.block)]]

\* ------------------------------------------------------------------ Close
TimersDone == \A i \in DOMAIN h : h[i].kind = "at" => pc[HTask(i)] = "done"

\* Evaluator.Close -> schedule.Close: under schedule.mu, a closed schedule
\* returns at once; otherwise closed is set, closing is closed and the call
\* waits for the timer tasks, still holding schedule.mu
scheduleClose ==
    /\ ~panicked
    /\ closerPc = "idle"
    /\ closeCalls < MaxClose
    /\ schedMu = None
    /\ IF schedClosed
       THEN closerPc' = "client" /\ UNCHANGED <<schedMu, schedClosed>>
       ELSE closerPc' = "wait" /\ schedMu' = Closer /\ schedClosed' = TRUE
    /\ UNCHANGED <<evalVars, envVars, sceneVars, h, d, events, busVars, closeCalls,
                   sets, ops, panicked>>

\* schedule.Close: wg.Wait() returns when every timer task has ended
scheduleCloseWait ==
    /\ ~panicked
    /\ closerPc = "wait"
    /\ TimersDone
    /\ schedMu' = None
    /\ closerPc' = "client"
    /\ UNCHANGED <<evalVars, envVars, sceneVars, h, d, schedClosed, events, busVars,
                   closeCalls, sets, ops, panicked>>

\* Evaluator.Close after the schedule: client.Close (the smarthome client's
\* Close under client.mu) and the disconnect from the broker
clientClose ==
    /\ ~panicked
    /\ closerPc = "client"
    /\ cMu = None
    /\ connected' = FALSE
    /\ closeCalls' = closeCalls + 1
    /\ closerPc' = "idle"
    /\ UNCHANGED <<evalVars, envVars, sceneVars, h, d, schedVars, cMu, subMu, inMap,
                   subs, busIdx, busMsg, sets, ops, panicked>>

Next ==
    \/ Eval
    \/ \E t \in DOMAIN pc : evalReturn(t)
    \/ \E t \in DOMAIN pc : evalSet(t)
    \/ \E t \in DOMAIN pc : evalGet(t)
    \/ \E t \in DOMAIN pc : evalDefineScene(t)
    \/ \E t \in DOMAIN pc : evalStartScene(t)
    \/ \E t \in DOMAIN pc : endStart(t)
    \/ \E t \in DOMAIN pc : evalStopScene(t)
    \/ \E t \in DOMAIN pc : sceneStateStop(t)
    \/ \E t \in DOMAIN pc : scheduleRemove(t)
    \/ \E t \in DOMAIN pc : sceneDelete(t)
    \/ \E t \in DOMAIN pc : evalAt(t)
    \/ \E t \in DOMAIN pc : evalWhen(t)
    \/ \E t \in DOMAIN pc : subscriptionSubscribe(t)
    \/ tick
    \/ \E i \in DOMAIN h : timerExpire(i)
    \/ \E i \in DOMAIN h : timerStop(i)
    \/ \E i \in DOMAIN h : timerFire(i)
    \/ \E i \in DOMAIN h : atCallback(i)
    \/ \E i \in DOMAIN h : whenCancel(i)
    \/ \E i \in DOMAIN h : whenCallback(i)
    \/ \E i \in DOMAIN h : subscriptionUnsubscribe(i)
    \/ \E j \in DOMAIN d : afterFunc(j)
    \/ \E v \in EventValues : handleStatusMessage(v)
    \/ statusSend
    \/ statusDone
    \/ scheduleClose
    \/ scheduleCloseWait
    \/ clientClose

Spec == Init /\ [][Next]_vars

\* ------------------------------------------------------------------ direct use
\* The cancel handle as a function value: a holder of the handle (any caller
\* of schedule.Add or client.When) invokes it again after it was invoked once.
\* Both handles start with close(cancel), and closing a closed channel is a
\* run-time panic.
cancelAgain(i) ==
    /\ ~panicked
    /\ h[i].cancelled >= 1
    /\ h' = [h EXCEPT ![i].cancelled = @ + 1]
    /\ panicked' = TRUE
    /\ UNCHANGED <<evalVars, envVars, sceneVars, d, schedVars, busVars, closerVars,
                   sets, ops>>

NextDirect ==
    \/ Next
    \/ \E i \in DOMAIN h : cancelAgain(i)

SpecDirect == Init /\ [][NextDirect]_vars

\* ------------------------------------------------------------------ bus adapter
\* dsl/eval/mqtt.go client with the smarthome device lookup, and the path of
\* a statement through Evaluator.Eval down to the adapter.  The underlying
\* bus calls of one adapter call are recorded in call.out in the order made.
Values == {"on", "off"}
NilResult == [kind |-> "nil", items |-> <<>>]
Max(S) == CHOOSE x \in S : \A y \in S : y <= x

\* mqtt.go containsWildcard: some segment is exactly * or **
containsWildcard(device) ==
    \E k \in 1..Len(Split(device)) : Split(device)[k] \in {<<"*">>, <<"*", "*">>}

\* A compiled regular expression is the sequence of its atoms: a literal
\* character, [^/]+ ("seg") or .* ("any").
Lit(c) == [t |-> "lit", c |-> c]
SegAtom == [t |-> "seg", c |-> ""]
AnyAtom == [t |-> "any", c |-> ""]

\* path.Join(parts...): the empty parts are dropped and the rest joined with
\* "/"; the cleaning that follows changes nothing, no part being "." or ".."
\* (regexp.QuoteMeta escapes the dots of a literal part).
RECURSIVE Join(_)
Join(parts) ==
    IF parts = <<>> THEN <<>>
    ELSE IF Head(parts) = <<>> THEN Join(Tail(parts))
    ELSE IF Join(Tail(parts)) = <<>> THEN Head(parts)
    ELSE Head(parts) \o <<Lit("/")>> \o Join(Tail(parts))

\* mqtt.go convertToRegex: * becomes [^/]+, ** becomes .*, any other segment
\* is quoted; the expression is compiled as it is, without ^ or $
convertToRegex(device) ==
    Join([k \in 1..Len(Split(device)) |->
            LET seg == Split(device)[k] IN
            IF seg = <<"*">> THEN <<SegAtom>>
            ELSE IF seg = <<"*", "*">> THEN <<AnyAtom>>
            ELSE [m \in 1..Len(seg) |-> Lit(seg[m])]])

\* the atoms from k on match a piece of str that starts at i
RECURSIVE MatchAt(_, _, _, _)
MatchAt(re, k, str, i) ==
    IF k > Len(re) THEN TRUE
    ELSE IF re[k].t = "lit"
         THEN i <= Len(str) /\ str[i] = re[k].c /\ MatchAt(re, k + 1, str, i + 1)
    ELSE IF re[k].t = "seg"
         THEN \E j \in (i + 1)..(Len(str) + 1) :
                 /\ \A m \in i..(j - 1) : str[m] # "/"
                 /\ MatchAt(re, k + 1, str, j)
    ELSE \E j \in i..(Len(str) + 1) : MatchAt(re, k + 1, str, j)

\* regexp.MatchString: the expression matches some piece of str
MatchString(re, str) == \E i \in 1..(Len(str) + 1) : MatchAt(re, 1, str, i)

\* deviceLookup.Device
Device(toplevel, item) ==
    IF deviceID(toplevel, item) \in DeviceIDs THEN devices[deviceID(toplevel, item)]
    ELSE Absent

\* deviceLookup.Find: the registered devices of the toplevel whose item the
\* expression matches
Find(toplevel, itemMatch) ==
    {id \in DeviceIDs : /\ devices[id] # Absent
                        /\ id.Toplevel = toplevel
                        /\ MatchString(itemMatch, id.Item)}

\* the orders in which a range over a Go map or the slice built from it can
\* visit S
Perms(S) ==
    {f \in [1..Cardinality(S) -> S] :
        \A i, j \in 1..Cardinality(S) : i # j => f[i] # f[j]}

busSet(toplevel, item, value) ==
    [op |-> "set", toplevel |-> toplevel, item |-> item, value |-> value]
\* an underlying get and the value it was answered with, "" if it failed
busGet(toplevel, item, answer) ==
    [op |-> "get", toplevel |-> toplevel, item |-> item, value |-> answer]

\* client.Set, for: every device found is set, lastErr is overwritten by each
\* failure
lastErr(failed) == IF failed = {} THEN NoErr ELSE Err("set failed", Max(failed))

\* client.Set as a plausible slip: the loop returns at the first failure
SetFailFast(toplevel, device, value) ==
    IF containsWildcard(device)
    THEN {[out |-> [k \in 1..(IF failed = {} THEN Len(order) ELSE Max(failed)) |->
                      busSet(toplevel, order[k].Item, value)],
           failed |-> failed, res |-> NilResult, err |-> lastErr(failed)] :
            order \in Perms(Find(toplevel, convertToRegex(device))),
            failed \in {{}} \cup {{k} : k \in 1..Cardinality(Find(toplevel, convertToRegex(device)))}}
    ELSE {[out |-> <<busSet(toplevel, device, value)>>,
           failed |-> failed, res |-> NilResult,
           err |-> IF failed = {} THEN NoErr ELSE Err("set failed", 1)] :
            failed \in SUBSET {1}}
\* client.Set: the outcomes it can have.  With a wildcard one underlying set
\* per device found, in the order of the map iteration, any of which can
\* fail; without, the one underlying set and its error.
Set(toplevel, device, value) ==
    IF containsWildcard(device)
    THEN {[out |-> [k \in 1..Len(order) |-> busSet(toplevel, order[k].Item, value)],
           failed |-> failed, res |-> NilResult, err |-> lastErr(failed)] :
            order \in Perms(Find(toplevel, convertToRegex(device))),
            failed \in SUBSET (1..Cardinality(Find(toplevel, convertToRegex(device))))}
    ELSE {[out |-> <<busSet(toplevel, device, value)>>,
           failed |-> failed, res |-> NilResult,
           err |-> IF failed = {} THEN NoErr ELSE Err("set failed", 1)] :
            failed \in SUBSET {1}}

\* the outcomes of a live get: an answer, or an error (publish failed, timed
\* out after 5 seconds, client closed) and the zero Value
LiveGet(toplevel, device) ==
    {[out |-> <<busGet(toplevel, device, v)>>, failed |-> {},
      res |-> [kind |-> "value", items |-> <<v>>], err |-> NoErr] : v \in Values}
    \cup {[out |-> <<busGet(toplevel, device, "")>>, failed |-> {1},
           res |-> [kind |-> "value", items |-> <<>>], err |-> Err("get failed", 1)]}

\* client.Get as a plausible slip: the registry is not consulted
GetAlwaysLive(toplevel, device) == LiveGet(toplevel, device)
\* client.Get: the outcomes it can have.  The registry's value when it has
\* one, else a live get.
Get(toplevel, device) ==
    IF Device(toplevel, device) # Absent
    THEN {[out |-> <<>>, failed |-> {},
           res |-> [kind |-> "value", items |-> <<Device(toplevel, device)>>],
           err |-> NoErr]}
    ELSE LiveGet(toplevel, device)

\* evalWithLock on one statement: the outcomes it can have.  evalSet and
\* evalGet split the path and forward to the adapter; evalSet's result is nil,
\* evalGet's wraps the value; a statement with no case in the switch (var) is
\* an unknown command.
evalWithLock(st) ==
    IF st.op \in {"set", "get"} /\ splitPathMatch(st.path).err # NoErr
    THEN {[out |-> <<>>, failed |-> {}, res |-> NilResult,
           err |-> splitPathMatch(st.path).err]}
    ELSE IF st.op = "set"
    THEN Set(splitPathMatch(st.path).toplevel, splitPathMatch(st.path).device, st.value)
    ELSE IF st.op = "get"
    THEN {IF o.err # NoErr THEN [o EXCEPT !.res = NilResult]
          ELSE [o EXCEPT !.res = [kind |-> "result", items |-> o.res.items]] :
            o \in Get(splitPathMatch(st.path).toplevel, splitPathMatch(st.path).device)}
    ELSE {[out |-> <<>>, failed |-> {}, res |-> NilResult,
           err |-> Err("unknown command", 0)]}

\* evalNodeList as a plausible slip: the statement's result is returned as it
\* is, not in a list
evalNodeListBare(st) ==
    {IF o.err # NoErr THEN [o EXCEPT !.res = NilResult] ELSE o : o \in evalWithLock(st)}
\* evalNodeList on a program of one statement: the statement's error with a
\* nil result, or a list with the statement's result as its one entry; the
\* string form of a nil entry is "nil" here
evalNodeList(st) ==
    {IF o.err # NoErr THEN [o EXCEPT !.res = NilResult]
     ELSE [o EXCEPT !.res = [kind |-> "listResult",
                             items |-> IF o.res.kind = "nil" THEN <<"nil">>
                                       ELSE o.res.items]] :
        o \in evalWithLock(st)}

Statement(op, path, value) == [op |-> op, path |-> path, value |-> value]
\* the one-statement programs the caller evaluates
Programs ==
    {Statement("set", <<"a", "/", "b">>, "on"),
     Statement("set", <<"*", "/", "l", "i", "g", "h", "t">>, "off"),
     Statement("set", house \o <<"/", "*", "/", "l", "i", "g", "h", "t">>, "off"),
     Statement("set", <<"b">>, "on"),
     Statement("get", house \o <<"/">> \o room2_switch, ""),
     Statement("get", <<"$">>, ""),
     Statement("var", <<"a", "/", "b">>, "")}
\* the arguments of the direct calls of the adapter
Toplevels == {house, flat}
Patterns ==
    {<<"*", "/", "l", "i", "g", "h", "t">>, <<"*">>,
     <<"*", "*", "/", "s", "w", "i", "t", "c", "h">>, room2_switch}
Items == {room1_light, room2_switch}

mainVars == <<script, nextLine, fires, nEvents, now, evalVars, sceneVars, h, d,
              schedVars, busVars, closerVars, sets, ops, panicked>>

\* deviceLookup.watch -> handleStatusMessage: a status message of the broker
\* is recorded
watch(id, v) ==
    /\ devices' = [devices EXCEPT ![id] = v]
    /\ call' = NoCall
    /\ UNCHANGED <<mainVars, timeVars, lexVars>>

\* a caller of client.Set
clientSet(toplevel, device, value) ==
    /\ \E o \in Set(toplevel, device, value) :
          call' = [op |-> "Set", stmt |-> "", path |-> <<>>, toplevel |-> toplevel,
                   device |-> device, value |-> value, out |-> o.out,
                   failed |-> o.failed, res |-> o.res, err |-> o.err]
    /\ UNCHANGED <<devices, mainVars, timeVars, lexVars>>

\* a caller of client.Get
clientGet(toplevel, device) ==
    /\ \E o \in Get(toplevel, device) :
          call' = [op |-> "Get", stmt |-> "", path |-> <<>>, toplevel |-> toplevel,
                   device |-> device, value |-> "", out |-> o.out,
                   failed |-> o.failed, res |-> o.res, err |-> o.err]
    /\ UNCHANGED <<devices, mainVars, timeVars, lexVars>>

\* Evaluator.Eval of the program with the one statement st
EvalProgram(st) ==
    /\ \E o \in evalNodeList(st) :
          call' = [op |-> "Eval", stmt |-> st.op, path |-> st.path, toplevel |-> <<>>,
                   device |-> <<>>, value |-> st.value, out |-> o.out,
                   failed |-> o.failed, res |-> o.res, err |-> o.err]
    /\ UNCHANGED <<devices, mainVars, timeVars, lexVars>>

NextClient ==
    \/ \E id \in DeviceIDs, v \in Values : watch(id, v)
    \/ \E toplevel \in Toplevels, device \in Patterns : clientSet(toplevel, device, "on")
    \/ \E toplevel \in Toplevels, device \in Items : clientGet(toplevel, device)
    \/ \E st \in Programs : EvalProgram(st)

InitClient == Init /\ script = 1
SpecClient == InitClient /\ [][NextClient]_vars

\* ------------------------------------------------------------------ clock times
\* An `at H:MM AM|PM` statement from the parser to the cron expression of its
\* daily timer.

\* the minutes of the time literals tried (the parser accepts 0..59)
Minutes == {0, 1, 30, 59, 60}

\* parser.time on a time literal h:m followed by AM or PM: the TimeNode, or
\* the range error
time(hr, m, am) ==
    /\ timeNode' =
          IF hr < 0 \/ hr > 12
          THEN [NoTime EXCEPT !.err = "hour must be between 0 and 12"]
          ELSE IF m < 0 \/ m > 59
          THEN [NoTime EXCEPT !.err = "minute must be between 0 and 59"]
          ELSE [Keyword |-> FALSE, Hour |-> hr, Minute |-> m, AM |-> am, err |-> ""]
    /\ cron' = NoCron
    /\ UNCHANGED <<mainVars, clientVars, lexVars>>

\* evalAt as a plausible slip: the 12-hour clock converted properly, 12 AM
\* being hour 0 and 12 PM hour 12
hourWrapped(tm) == (tm.Hour % 12) + (IF tm.AM THEN 0 ELSE 12)
\* evalAt: hour := n.Time.Hour; if !n.Time.AM { hour += 12 }
hour(tm) == IF ~tm.AM THEN tm.Hour + 12 ELSE tm.Hour

\* schedule.DailyTimer: the text "M H * * *" handed to CronTimer
DailyTimer(hr, minute) == [minute |-> minute, hour |-> hr, rest |-> "* * *"]

\* evalAt on the statement with the parsed clock time
evalAtDaily ==
    /\ timeNode.err = ""
    /\ ~timeNode.Keyword
    /\ cron' = DailyTimer(hour(timeNode), timeNode.Minute)
    /\ UNCHANGED <<timeNode, mainVars, clientVars, lexVars>>

NextTime ==
    \/ \E hr \in 0..MaxHour, m \in Minutes, am \in BOOLEAN : time(hr, m, am)
    \/ evalAtDaily

SpecTime == InitClient /\ [][NextTime]_vars

\* ------------------------------------------------------------------ lexer
\* The lexer goroutine of Lex: `for state := lexToken; state != nil; { state =
\* state(l) }`, then the deferred close of the token channel.  Each action is
\* one iteration of the loop of the state function the lexer is in.  The
\* reader of the channel takes every token sent.  Token positions (line and
\* char counters) are left out.  lexer.spin is not a field of the code: it
\* flips each time lexEscapedQuotedString reads end of input, so that a loop
\* that changes nothing else is visible as steps.
Alphabet == {"A", "M", "m", "s", "1", ":", ".", "/", "'", "\"", "\\", " ", "#"}
eof == "eof"
IsLetter(r) == r \in {"A", "M", "m", "s"}
IsDigit(r) == r = "1"
IsSpace(r) == r = " "
isValidIdent(r) == IsDigit(r) \/ IsLetter(r) \/ r = "_"
isDurUnit(r) == r \in {"u", "s", "m", "h"}
\* the keywords the alphabet can spell
keywords == <<"A", "M">> :> "TokenAM"
\* lexWordOrKeyword: the type of the token a word is sent as
KeywordType(w) == IF w \in DOMAIN keywords THEN keywords[w] ELSE "TokenWord"

\* inputs longer than MaxLen that reach the parts of the lexer short ones do
\* not: a time with AM, a duration in ms, an escaped quote in a string, a
\* decimal number with a unit
Samples ==
    {<<"1", ":", "1", " ", "A", "M">>, <<"1", "m", "s", " ", "1", ".", "1">>,
     <<"'", "s", "\\", "'", "s", "'", "/">>, <<"'", "s", "\\", "'", "s">>,
     <<"1", ".", "1", "m">>, <<"1", "1", ".", "1", "m", "s">>}
Inputs == UNION {[1..n -> Alphabet] : n \in 0..MaxLen} \cup Samples

\* lexer.next: the rune it returns, and the lexer after it
rune(lx) == IF lx.pos >= Len(lx.input) THEN eof ELSE lx.input[lx.pos + 1]
lexerNext(lx) ==
    IF lx.pos >= Len(lx.input) THEN [lx EXCEPT !.width = 0]
    ELSE [lx EXCEPT !.pos = @ + 1, !.width = 1]
\* lexer.backup
backup(lx) == [lx EXCEPT !.pos = @ - lx.width]
\* lexer.peek: next then backup; rune(lx) is what it returns
peek(lx) == backup(lexerNext(lx))
\* lexer.current
current(lx) == SubSeq(lx.input, lx.start + 1, lx.pos)
\* lexer.ignore
ignore(lx) == [lx EXCEPT !.start = lx.pos]
\* lexer.ignoreSpace: next while it returns a space, ignoring each; backup
RECURSIVE ignoreSpace(_)
ignoreSpace(lx) ==
    IF IsSpace(rune(lx)) THEN ignoreSpace(ignore(lexerNext(lx)))
    ELSE backup(lexerNext(lx))

Token(type, value) == [Type |-> type, Value |-> value]
\* lexer.emit: the current text is sent as a token of the type, and the next
\* token starts here; the lexer goes on in state fn
emit(lx, type, fn) ==
    /\ tokens' = [tokens EXCEPT !.sent = Append(@, Token(type, current(lx)))]
    /\ lexer' = [ignore(lx) EXCEPT !.state = fn]
\* lexer.errorf: an error token is sent and the terminal state returned
errorf(lx) ==
    /\ tokens' = [tokens EXCEPT !.sent = Append(@, Token("TokenError", <<>>))]
    /\ lexer' = [lx EXCEPT !.state = "nil"]
\* no token sent; the lexer goes on in state fn
goto(lx, fn) ==
    /\ lexer' = [lx EXCEPT !.state = fn]
    /\ UNCHANGED tokens

\* Lex: a new lexer on the input, its goroutine starting in lexToken
Lex(input) ==
    /\ lexer.state = "none"
    /\ lexer' = [input |-> input, pos |-> 0, start |-> 0, width |-> 0,
                 state |-> "lexToken", quote |-> "", spin |-> 0]
    /\ UNCHANGED <<tokens, mainVars, clientVars, timeVars>>

lexToken ==
    /\ lexer.state = "lexToken"
    /\ LET r == rune(lexer)
           lx == lexerNext(lexer) IN
        IF r = eof THEN emit(lx, "TokenEOF", "nil")
        ELSE IF IsLetter(r) THEN goto(lx, "lexWordOrKeyword")
        ELSE IF IsDigit(r) THEN goto(lx, "lexNumberOrTimeOrDuration")
        ELSE IF r = "/" THEN emit(lx, "TokenPathSeparator", "lexToken")
        ELSE IF r \in {"'", "\""}
             THEN goto([lx EXCEPT !.quote = r], "lexEscapedQuotedString")
        ELSE IF IsSpace(r) THEN goto(ignore(lx), "lexToken")
        ELSE errorf(lx)
    /\ UNCHANGED <<mainVars, clientVars, timeVars>>

lexWordOrKeyword ==
    /\ lexer.state = "lexWordOrKeyword"
    /\ LET r == rune(lexer)
           lx == lexerNext(lexer) IN
        IF r # eof /\ isValidIdent(r) THEN goto(lx, "lexWordOrKeyword")
        ELSE emit(backup(lx), KeywordType(current(backup(lx))), "lexToken")
    /\ UNCHANGED <<mainVars, clientVars, timeVars>>

\* lexEscapedQuotedString: a backslash swallows a following quote, the quote
\* ends the string, every other rune, end of input too, is passed over
lexEscapedQuotedString ==
    /\ lexer.state = "lexEscapedQuotedString"
    /\ LET r == rune(lexer)
           lx == lexerNext(lexer) IN
        IF r = "\\"
        THEN goto(IF rune(lx) = lexer.quote THEN lexerNext(peek(lx)) ELSE peek(lx),
                  "lexEscapedQuotedString")
        ELSE IF r = lexer.quote THEN emit(lx, "TokenString", "lexToken")
        ELSE IF r = eof THEN goto([lx EXCEPT !.spin = 1 - @], "lexEscapedQuotedString")
        ELSE goto(lx, "lexEscapedQuotedString")
    /\ UNCHANGED <<mainVars, clientVars, timeVars>>

lexNumberOrTimeOrDuration ==
    /\ lexer.state = "lexNumberOrTimeOrDuration"
    /\ LET r == rune(lexer)
           lx == lexerNext(lexer) IN
        IF r = eof THEN emit(backup(lx), "TokenNumber", "lexToken")
        ELSE IF IsDigit(r) THEN goto(lx, "lexNumberOrTimeOrDuration")
        ELSE IF r = "." THEN goto(lx, "lexNumberDigits")
        ELSE IF r = ":" THEN goto(lx, "lexTimeDigits")
        ELSE IF isDurUnit(r)
             THEN emit(IF r # "m" THEN lx
                       ELSE IF rune(lx) = "s" THEN lexerNext(peek(lx)) ELSE peek(lx),
                       "TokenDuration", "lexToken")
        ELSE emit(backup(lx), "TokenNumber", "lexToken")
    /\ UNCHANGED <<mainVars, clientVars, timeVars>>

\* lexNumberDigits as a plausible slip: a unit after the decimals makes a
\* duration, as it does after a run of digits
lexNumberDigitsUnit ==
    /\ lexer.state = "lexNumberDigits"
    /\ LET r == rune(lexer)
           lx == lexerNext(lexer) IN
        IF r # eof /\ IsDigit(r) THEN goto(lx, "lexNumberDigits")
        ELSE IF isDurUnit(r)
             THEN emit(IF r # "m" THEN lx
                       ELSE IF rune(lx) = "s" THEN lexerNext(peek(lx)) ELSE peek(lx),
                       "TokenDuration", "lexToken")
        ELSE emit(backup(lx), "TokenNumber", "lexToken")
    /\ UNCHANGED <<mainVars, clientVars, timeVars>>

lexNumberDigits ==
    /\ lexer.state = "lexNumberDigits"
    /\ LET r == rune(lexer)
           lx == lexerNext(lexer) IN
        IF r # eof /\ IsDigit(r) THEN goto(lx, "lexNumberDigits")
        ELSE emit(backup(lx), "TokenNumber", "lexToken")
    /\ UNCHANGED <<mainVars, clientVars, timeVars>>

\* lexTimeDigits: after the digits the time token is sent and the space
\* before AM or PM skipped
lexTimeDigits ==
    /\ lexer.state = "lexTimeDigits"
    /\ LET r == rune(lexer)
           lx == lexerNext(lexer) IN
        IF r # eof /\ IsDigit(r) THEN goto(lx, "lexTimeDigits")
        ELSE /\ tokens' = [tokens EXCEPT
                             !.sent = Append(@, Token("TokenTime", current(backup(lx))))]
             /\ lexer' = [ignoreSpace(ignore(backup(lx))) EXCEPT !.state = "lexAMPM"]
    /\ UNCHANGED <<mainVars, clientVars, timeVars>>

lexAMPM ==
    /\ lexer.state = "lexAMPM"
    /\ LET r == rune(lexer)
           lx == lexerNext(lexer) IN
        IF r \in {"A", "P"}
        THEN IF rune(lx) # "M" THEN errorf(lexerNext(lx))
             ELSE emit(lexerNext(lx), IF r = "A" THEN "TokenAM" ELSE "TokenPM", "lexToken")
        ELSE errorf(lx)
    /\ UNCHANGED <<mainVars, clientVars, timeVars>>

\* Lex, deferred close(l.tokens): the loop has ended
lexClose ==
    /\ lexer.state = "nil"
    /\ ~tokens.closed
    /\ tokens' = [tokens EXCEPT !.closed = TRUE]
    /\ UNCHANGED <<lexer, mainVars, clientVars, timeVars>>

lexerSteps ==
    \/ lexToken
    \/ lexWordOrKeyword
    \/ lexEscapedQuotedString
    \/ lexNumberOrTimeOrDuration
    \/ lexNumberDigits
    \/ lexTimeDigits
    \/ lexAMPM
    \/ lexClose

NextLex ==
    \/ (lexer.state = "none" /\ \E input \in Inputs : Lex(input))
    \/ lexerSteps

\* The goroutine is always scheduled: while the loop has a next iteration, it
\* is taken.
SpecLex == InitClient /\ [][NextLex]_vars /\ WF_vars(NextLex)

\* ------------------------------------------------------------------ properties
\* What the formulas below read off the script: the scene whose definition
\* textually contains the statement at position p ("global" for a top-level
\* statement), and the number of at/when statements directly in a block.
RECURSIVE PosIn(_)
PosIn(block) ==
    UNION {{block[k].pos} \cup PosIn(block[k].block) : k \in 1..Len(block)}
TopLevel(sc) ==
    UNION {{Scripts[sc][l][k] : k \in 1..Len(Scripts[sc][l])} : l \in 1..Len(Scripts[sc])}
Home(p) ==
    LET defs == {st \in TopLevel(script) : st.op = "scene" /\ p \in PosIn(st.block)} IN
    IF defs = {} THEN "global" ELSE (CHOOSE st \in defs : TRUE).name
DirectRegs(block) == Cardinality({k \in 1..Len(block) : block[k].op \in {"at", "when"}})
InList(i, s) == \E k \in 1..Len(states[s].cancel) : states[s].cancel[k] = i
\* a registration is live: not cancelled and its task still runs
Live(i) == h[i].cancelled = 0 /\ pc[HTask(i)] \in {"select", "cb", "eval"}

\* C1: when `stop X` removes X from the scene map, every cancel handle in
\* X's cancel list has been invoked exactly once.
StopInvokesEveryCancelOnce ==
    [][\A n \in SceneNames :
         (scenes[n] # 0 /\ scenes'[n] = 0) =>
            \A k \in 1..Len(states[scenes[n]].cancel) :
               h'[states[scenes[n]].cancel[k]].cancelled = 1]_vars
\* a stopped scene whose list held a timer and a subscription handle
StopInvokedTwoCancels ==
    \E s \in DOMAIN states :
        /\ states[s].stopLen >= 2
        /\ scenes[states[s].name] = 0
        /\ \A k \in 1..states[s].stopLen : h[states[s].cancel[k]].cancelled = 1

\* C2: once the cancel handle of a scheduled event has been invoked, its
\* callback is not started again.
CancelledTimerNeverCalls ==
    [][\A i \in DOMAIN h :
         (h[i].kind = "at" /\ h[i].cancelled > 0) => h'[i].calls = h[i].calls]_vars

\* C3: once the cancel handle of a `when` subscription has been invoked, no
\* further callback is started.
CancelledWhenNeverCalls ==
    [][\A i \in DOMAIN h :
         (h[i].kind = "when" /\ h[i].cancelled > 0) => h'[i].calls = h[i].calls]_vars

\* C4: schedule.Close returns: while it waits for the timer tasks, holding
\* schedule.mu, no unfinished timer task waits for schedule.mu itself or for
\* the evaluator mutex of a task that waits for schedule.mu.
NeedsSchedMu(t) ==
    /\ Evaluating(t) /\ mu = t /\ todo[t] # <<>>
    /\ \/ Head1(t).st.op = "remove"
       \/ Head1(t).st.op = "at" /\ Head1(t).st.value \in TimeWords
TimerWaitsForClose(i) ==
    /\ IsTimer(i)
    /\ \/ NeedsSchedMu(HTask(i))
       \/ pc[HTask(i)] = "cb" /\ mu # None /\ NeedsSchedMu(mu)
CloseReturns ==
    closerPc = "wait" => \A i \in DOMAIN h : ~TimerWaitsForClose(i)

\* C5: after Evaluator.Close has returned, no subscription task whose cancel
\* handle was never invoked is still waiting in its select for status events.
CloseStopsSubscriptionTasks ==
    closeCalls >= 1 =>
        \A i \in DOMAIN h :
            (h[i].kind = "when" /\ h[i].cancelled = 0) => pc[HTask(i)] # "select"

\* C6: a cancelled subscription task is never waiting for subscription.mu in
\* Unsubscribe while handleStatusMessage holds that mutex and is blocked
\* sending to the same task.
UnsubscribeNeverBlocked ==
    \A i \in DOMAIN h :
        ~(/\ h[i].kind = "when"
          /\ pc[HTask(i)] = "unsub"
          /\ subMu = Bus
          /\ busIdx >= 1 /\ busIdx <= Len(subs)
          /\ subs[busIdx] = i)

\* C7: after `stop X` directly followed by `start X` (and nothing closed), X
\* is in the scene map with exactly one live set of registrations: one per
\* at/when statement of its block.
StopThenStartOneLiveSet ==
    \A n \in SceneNames :
        (/\ Len(ops[n]) = 2
         /\ ops[n][1] = "stop:ok"
         /\ ops[n][2] \in {"start:ok", "start:err"}
         /\ mu = None /\ closerPc = "idle" /\ closeCalls = 0) =>
            /\ scenes[n] # 0
            /\ Len(states[scenes[n]].cancel) = DirectRegs(states[scenes[n]].block)
            /\ \A k \in 1..Len(states[scenes[n]].cancel) : Live(states[scenes[n]].cancel[k])

\* C8: while X is in the scene map (no eval in progress, scheduler open), its
\* cancel list holds the handles of every completed run of its block and each
\* is live; after the stop, every handle that was in the list is cancelled.
StartIsAdditive ==
    /\ \A n \in SceneNames :
          (scenes[n] # 0 /\ mu = None /\ ~schedClosed) =>
             LET s == states[scenes[n]] IN
             /\ Len(s.cancel) >= s.runs * DirectRegs(s.block)
             /\ \A k \in 1..Len(s.cancel) : Live(s.cancel[k])
    /\ \A s \in DOMAIN states :
          (states[s].stopLen >= 0 /\ ~panicked) =>
             /\ states[s].stopLen >= states[s].runs * DirectRegs(states[s].block)
             /\ \A k \in 1..states[s].stopLen : h[states[s].cancel[k]].cancelled = 1
\* two runs of X's block are live under the one scene state
TwoRunsLive ==
    \E n \in SceneNames :
        /\ scenes[n] # 0 /\ mu = None /\ ~schedClosed
        /\ states[scenes[n]].runs = 2
        /\ DirectRegs(states[scenes[n]].block) >= 1
        /\ Len(states[scenes[n]].cancel) = 2 * DirectRegs(states[scenes[n]].block)
        /\ \A k \in 1..Len(states[scenes[n]].cancel) : Live(states[scenes[n]].cancel[k])
\* ... and after the later stop both are cancelled
TwoRunsStopped ==
    \E s \in DOMAIN states :
        /\ states[s].runs = 2 /\ states[s].stopLen = 2
        /\ \A k \in 1..2 : h[states[s].cancel[k]].cancelled = 1

\* C9: every registration's cancel handle is in exactly one cancel list, once,
\* and that list belongs to a state of the scene whose definition contains
\* the at/when statement (the global scene for a top-level statement).
CancelRoutedToOwner ==
    \A i \in DOMAIN h :
        /\ \E s \in DOMAIN states : InList(i, s)
        /\ \A s \in DOMAIN states :
              InList(i, s) =>
                 /\ states[s].name = Home(h[i].st.pos)
                 /\ Cardinality({k \in 1..Len(states[s].cancel) : states[s].cancel[k] = i}) = 1
                 /\ \A s2 \in DOMAIN states : InList(i, s2) => s2 = s
\* registrations owned by X (one made from a callback), by Y and by the
\* global scene at the same time
ThreeOwners ==
    /\ \E i \in DOMAIN h : Home(h[i].st.pos) = "X" /\ h[i].kind = "when"
    /\ \E i \in DOMAIN h : Home(h[i].st.pos) = "Y"
    /\ \E i \in DOMAIN h : Home(h[i].st.pos) = "global"

\* C10: at most one task is evaluating statements, and it holds the
\* evaluator mutex.
WalkSerialised ==
    /\ \A t1, t2 \in DOMAIN pc : (pc[t1] = "eval" /\ pc[t2] = "eval") => t1 = t2
    /\ \A t \in DOMAIN pc : pc[t] = "eval" => mu = t
\* a callback is evaluating while the caller and another callback wait
CallbackEvaluatesOthersWait ==
    \E i \in DOMAIN h :
        /\ pc[HTask(i)] = "eval" /\ mu = HTask(i) /\ todo[HTask(i)] # <<>>
        /\ \E j \in DOMAIN h : j # i /\ pc[HTask(j)] = "cb"
        /\ pc[Main] = "idle" /\ nextLine <= Len(Scripts[script])

\* C11: the task that holds the evaluator mutex is inside the body of eval,
\* never at a call of eval (a callback about to run, a delayed task about to
\* run, the caller between two programs): nobody locks the mutex it holds.
NoRelock ==
    /\ mu = None \/ mu \in DOMAIN pc
    /\ \A t \in DOMAIN pc : mu = t => pc[t] = "eval"
\* a subscription callback holds the mutex and is inside a nested start
CallbackInNestedStart ==
    \E i \in DOMAIN h :
        /\ h[i].kind = "when" /\ mu = HTask(i) /\ pc[HTask(i)] = "eval"
        /\ Depth(HTask(i)) >= 1
        /\ todo[HTask(i)] # <<>> /\ Head1(HTask(i)).st.op \in {"at", "when"}

\* C12: a cancel handle may be invoked a second time: the second invocation
\* does not fail.
CancelTwiceIsHarmless ==
    \A i \in DOMAIN h : h[i].cancelled >= 2 => ~panicked

\* C13: a start or stop of a name that is not in the scene map fails with
\* "unknown scene", aborts the program and changes neither the scene map, the
\* cancel lists, the timers, the subscriptions nor the bus; a name is never
\* stopped successfully twice in a row.
UnknownSceneFailsCleanly ==
    /\ [][\A t \in DOMAIN pc :
            (/\ AtHead(t, "start") \/ AtHead(t, "stop")
             /\ scenes[Head1(t).st.name] = 0
             /\ <<todo[t], err[t], pc[t]>>' # <<todo[t], err[t], pc[t]>>) =>
                /\ err'[t] = "unknown scene"
                /\ todo'[t] = <<>>
                /\ UNCHANGED <<scenes, states, h, d, events, subs, inMap, sets>>]_vars
    /\ [](\A n \in SceneNames : ops[n] # <<"stop:ok", "stop:ok">>)
\* the second `stop X` of the second script has failed, and the set after
\* it was not published
SecondStopFailed ==
    /\ ops["X"] = <<"stop:ok", "stop:err">>
    /\ err[Main] = "unknown scene"
    /\ pc[Main] = "idle"
    /\ scenes["X"] = 0

\* C14: `stop X` of a scene that was defined and not started since succeeds
\* without invoking any cancel handle (it goes straight to the removal of X,
\* no timer or subscription changes), and leaves X absent from the scene map.
StopOfUnstartedScene ==
    /\ [][\A t \in DOMAIN pc :
            (/\ AtHead(t, "stop") \/ AtHead(t, "delete")
             /\ Len(ops[Head1(t).st.name]) > 0
             /\ ops[Head1(t).st.name][Len(ops[Head1(t).st.name])] = "scene"
             /\ todo'[t] # todo[t]) =>
                /\ scenes[Head1(t).st.name] # 0
                /\ err'[t] = ""
                /\ UNCHANGED <<h, events, subs, d>>
                /\ AtHead(t, "stop") =>
                      (todo'[t] # <<>> /\ todo'[t][1].st.op = "delete")
                /\ AtHead(t, "delete") => scenes'[Head1(t).st.name] = 0]_vars
    /\ [](\A n \in SceneNames :
             (ops[n] = <<"scene", "stop:ok">>) =>
                /\ scenes[n] = 0
                /\ \A s \in DOMAIN states :
                      (states[s].name = n /\ states[s].stopLen >= 0) => states[s].stopLen = 0)
\* X was defined and stopped, never started; the top-level timer registered
\* before is still live
UnstartedSceneStopped ==
    /\ ops["X"] = <<"scene", "stop:ok">>
    /\ pc[Main] = "idle" /\ err[Main] = ""
    /\ scenes["X"] = 0
    /\ \E i \in DOMAIN h : h[i].scene = GlobalScene /\ Live(i)

\* C15: once a scene state has been stopped its cancel list is empty, and it
\* stays empty.
StoppedSceneListEmpty ==
    \A s \in DOMAIN states : states[s].stopLen >= 0 => states[s].cancel = <<>>

\* C16: evaluating `scene X { B }` stores a new state {B, empty cancel list}
\* under X and does nothing else: no statement of B is queued or run, the bus,
\* the timers and the subscriptions are untouched, and every existing scene
\* state and every other name of the scene map stay as they are.
DefineOnlyStores ==
    [][\A t \in DOMAIN pc :
         (AtHead(t, "scene") /\ todo'[t] # todo[t]) =>
            LET n == Head1(t).st IN
            /\ todo'[t] = Tail(todo[t])
            /\ err'[t] = err[t]
            /\ UNCHANGED <<h, d, events, subs, inMap, sets, pc>>
            /\ scenes'[n.name] \in DOMAIN states'
            /\ scenes'[n.name] \notin DOMAIN states
            /\ states'[scenes'[n.name]].block = n.block
            /\ states'[scenes'[n.name]].cancel = <<>>
            /\ \A m \in SceneNames \ {n.name} : scenes'[m] = scenes[m]
            /\ \A s \in DOMAIN states : states'[s] = states[s]]_vars
\* X was defined again while its first definition is started: the first
\* state keeps its live timer, the new state has the new block and no handle
DefinedAgainWhileStarted ==
    /\ ops["X"] = <<"start:ok", "scene">>
    /\ scenes["X"] # 0
    /\ states[scenes["X"]].block # <<>>
    /\ states[scenes["X"]].cancel = <<>>
    /\ \E s \in DOMAIN states :
          /\ s # scenes["X"] /\ states[s].name = "X"
          /\ states[s].cancel # <<>>
          /\ \A k \in 1..Len(states[s].cancel) : Live(states[s].cancel[k])

ErrorAbortsBlock ==
    /\ [][\A t \in DOMAIN pc :
            /\ (err[t] = "" /\ err'[t] # "") =>
                  /\ pc[t] = "eval" /\ pc'[t] = "eval"
                  /\ todo'[t] = <<>>
                  /\ UNCHANGED <<sets, h, d, scenes, states, events, subs, inMap>>
            /\ (err[t] # "" /\ pc[t] = "eval") =>
                  /\ err'[t] = err[t]
                  /\ pc'[t] # "eval" => (pc'[t] = AfterEval(t) /\ mu' = None)]_vars
    /\ [](\A t \in DOMAIN pc : (err[t] # "" /\ pc[t] = "eval") => todo[t] = <<>>)
\* `stop Y` failed inside X's block, started from the middle of a program:
\* the sets and the timer made before it stay, nothing after it ran
FailedInsideStartedScene ==
    /\ pc[Main] = "idle" /\ err[Main] = "unknown scene"
    /\ sets = <<7, 2>>
    /\ scenes["X"] # 0 /\ states[scenes["X"]].runs = 0
    /\ Len(states[scenes["X"]].cancel) = 1
    /\ Live(states[scenes["X"]].cancel[1])

\* next applied k times
RECURSIVE NextK(_, _)
NextK(n, k) == IF k = 0 THEN n ELSE next(NextK(n, k - 1))

\* C19: with t0 the time read when Add started the task, the k-th
\* firing-time argument passed to the callback is next applied k times to t0
\* (none skipped, none repeated), and the target a sleeping task
\* waits for is the one after its last argument, however late the callback
\* returned; the target never decreases.
TimerSeedsWithTarget ==
    /\ [][\A i \in DOMAIN h :
            /\ (h[i].kind = "at" /\ h'[i].calls = h[i].calls + 1) =>
                  h[i].nextTime = NextK(h[i].t0, h'[i].calls)
            /\ h'[i].nextTime >= h[i].nextTime]_vars
    /\ [](\A i \in DOMAIN h :
             (h[i].kind = "at" /\ pc[HTask(i)] = "select") =>
                h[i].nextTime = NextK(h[i].t0, h[i].calls + 1))
\* a timer whose first callback was still running when its second target
\* passed (the callback registered another timer at that time) sleeps for
\* that second target
LateCallbackKeepsTarget ==
    \E a, b \in DOMAIN h :
        /\ h[a].kind = "at" /\ h[a].t0 = 0 /\ h[a].calls = 1
        /\ pc[HTask(a)] = "select" /\ h[a].nextTime = 4
        /\ h[b].kind = "at" /\ b # a /\ h[b].t0 >= 4

\* g is a firing instant of the timer
Firing(g) == \E m \in 0..g : next(m) = g

RECURSIVE MatchRest(_, _, _, _)
MatchRest(re, k, str, i) ==
    IF k > Len(re) THEN i = Len(str) + 1
    ELSE IF re[k].t = "lit"
         THEN i <= Len(str) /\ str[i] = re[k].c /\ MatchRest(re, k + 1, str, i + 1)
    ELSE IF re[k].t = "seg"
         THEN \E j \in (i + 1)..(Len(str) + 1) :
                 /\ \A m \in i..(j - 1) : str[m] # "/"
                 /\ MatchRest(re, k + 1, str, j)
    ELSE \E j \in i..(Len(str) + 1) : MatchRest(re, k + 1, str, j)
\* the whole item path matches the pattern: * is one non-empty segment, ** any
\* text, every other segment itself
WholeMatch(device, item) == MatchRest(convertToRegex(device), 1, item, 1)
\* the underlying sets of the call c that went to item
SetsFor(c, item) == {k \in 1..Len(c.out) : c.out[k].op = "set" /\ c.out[k].item = item}

\* C21: in every state reached by a wildcard set (the registry is the one the
\* call saw), the set issued exactly one underlying set for each registered
\* device of the given toplevel whose whole item path matches the pattern, and
\* none for a device of which only a part matches or that is registered under
\* another toplevel.
WildcardSetIsAnchored ==
    (call.op = "Set" /\ containsWildcard(call.device)) =>
        \A id \in DeviceIDs :
            Cardinality(SetsFor(call, id.Item)) =
                IF \E o \in DeviceIDs : /\ o.Item = id.Item
                                        /\ devices[o] # Absent
                                        /\ o.Toplevel = call.toplevel
                                        /\ WholeMatch(call.device, o.Item)
                THEN 1
                ELSE 0

\* the registry of the scenario: room1/light, room2/light and room2/switch
\* under house, nothing else
HouseRegistry ==
    \A id \in DeviceIDs : (devices[id] # Absent) <=> (id.Toplevel = house)

\* C22: evaluating `set */light off` with the registry items room1/light,
\* room2/light and room2/switch under toplevel house issues exactly two
\* underlying sets, one for room1/light and one for room2/light, and none for
\* room2/switch.
StarLightSetsBothLights ==
    (/\ call.op = "Eval" /\ call.stmt = "set"
     /\ call.path = <<"*", "/", "l", "i", "g", "h", "t">>
     /\ HouseRegistry) =>
        /\ Len(call.out) = 2
        /\ Cardinality(SetsFor(call, room1_light)) = 1
        /\ Cardinality(SetsFor(call, room2_light)) = 1
        /\ SetsFor(call, room2_switch) = {}
        /\ \A k \in 1..Len(call.out) : call.out[k].value = "off"

\* C23: a wildcard set attempts the underlying set of every device found, also
\* after one of them failed; it returns the error of the last failing one and
\* no error exactly when none failed; the only bus calls it makes are those
\* sets, so a set that succeeded is not undone.
WildcardSetLastError ==
    (call.op = "Set" /\ containsWildcard(call.device)) =>
        LET found == Find(call.toplevel, convertToRegex(call.device)) IN
        /\ Len(call.out) = Cardinality(found)
        /\ \A id \in found : Cardinality(SetsFor(call, id.Item)) = 1
        /\ \A k \in 1..Len(call.out) :
              call.out[k] = busSet(call.toplevel, call.out[k].item, call.value)
        /\ call.failed \subseteq 1..Len(call.out)
        /\ (call.err = NoErr) <=> (call.failed = {})
        /\ call.failed # {} => call.err = Err("set failed", Max(call.failed))
\* a wildcard set of three devices: the first two failed, the third, made
\* after them, succeeded, and the error is the second's
ThirdSetAfterTwoFailures ==
    /\ call.op = "Set" /\ containsWildcard(call.device)
    /\ Len(call.out) = 3
    /\ call.failed = {1, 2}
    /\ call.err = Err("set failed", 2)

\* what a get of (toplevel, device) must have done and returned, given the
\* registry: kind is the form of the result the caller sees
GetContract(c, toplevel, device, kind) ==
    IF Device(toplevel, device) # Absent
    THEN /\ c.out = <<>>
         /\ c.err = NoErr
         /\ c.res = [kind |-> kind, items |-> <<Device(toplevel, device)>>]
    ELSE /\ Len(c.out) = 1
         /\ c.out[1].op = "get" /\ c.out[1].toplevel = toplevel /\ c.out[1].item = device
         /\ IF c.failed = {}
            THEN /\ c.err = NoErr
                 /\ c.res = [kind |-> kind, items |-> <<c.out[1].value>>]
            ELSE c.err = Err("get failed", 1)

\* C24: `get T/D` returns the registry's cached value for (T, D) when the
\* registry has one and issues no underlying get; only when the registry has
\* no entry is one live get issued, and its value or its error is the result.
\* Stated for a direct call of the adapter and for a get statement evaluated
\* through Eval.
GetPrefersRegistry ==
    /\ call.op = "Get" => GetContract(call, call.toplevel, call.device, "value")
    /\ (call.op = "Eval" /\ call.stmt = "get" /\ splitPathMatch(call.path).err = NoErr) =>
          GetContract(call, splitPathMatch(call.path).toplevel,
                      splitPathMatch(call.path).device, "listResult")
\* `get house/room2/switch` answered from the registry with the cached off
CachedGetThroughEval ==
    /\ call.op = "Eval" /\ call.stmt = "get"
    /\ devices[deviceID(house, room2_switch)] = "off"
    /\ call.out = <<>>
    /\ call.res = [kind |-> "listResult", items |-> <<"off">>]

\* C25: the hour of the daily timer is the parsed hour plus 12 exactly when
\* the time is PM: H:MM AM gives hour H (12:00 AM hour 12), H:MM PM gives
\* H + 12 (12:00 PM hour 24), for the parsed hours 0..12, and that hour and
\* the minute are what the cron expression "M H * * *" is built from.
ClockHourAddsTwelveWhenPM ==
    cron # NoCron =>
        /\ timeNode.Hour \in 0..12
        /\ timeNode.AM => cron.hour = timeNode.Hour
        /\ ~timeNode.AM => cron.hour = timeNode.Hour + 12
        /\ (timeNode.Hour = 12 /\ timeNode.AM) => cron.hour = 12
        /\ (timeNode.Hour = 12 /\ ~timeNode.AM) => cron.hour = 24
        /\ cron.minute = timeNode.Minute
        /\ cron.rest = "* * *"
\* `at 12:00 PM`: the cron expression is "0 24 * * *"
NoonIsHour24 ==
    /\ timeNode.Hour = 12 /\ timeNode.Minute = 0 /\ ~timeNode.AM
    /\ cron = DailyTimer(24, 0)

\* C26: a program consisting of `var x = get a/b` evaluates without error.
VarEvaluatesWithoutError ==
    (call.op = "Eval" /\ call.stmt = "var") => call.err = NoErr

\* the task is about to evaluate a set, get or when whose path has no "/"
AtPathless(t) ==
    /\ Evaluating(t) /\ mu = t /\ todo[t] # <<>>
    /\ Head1(t).st.op \in {"set", "get", "when"}
    /\ splitPathMatch(Head1(t).st.path).err # NoErr

\* C27: a set, get or when whose path contains no "/" (the sentinel $
\* included) is rejected at evaluation with a path error: the step that
\* evaluates it publishes nothing, touches nothing of the bus client, creates
\* no subscription and no task, and leaves every scene's cancel list as it was.
PathlessIsRejected ==
    [][\A t \in DOMAIN pc :
        (AtPathless(t) /\ todo'[t] # todo[t]) =>
            /\ err'[t] = "invalid path"
            /\ todo'[t] = <<>>
            /\ sets' = sets
            /\ UNCHANGED busVars
            /\ h' = h
            /\ DOMAIN pc' = DOMAIN pc
            /\ states' = states]_vars
\* `start X` failed on the `when $` of X's block, after the when before it had
\* been registered: X's cancel list holds that one handle only
WhenDollarRejected ==
    /\ script = 9 /\ nextLine = 3
    /\ pc[Main] = "idle" /\ err[Main] = "invalid path"
    /\ Len(h) = 1
    /\ scenes["X"] # 0 /\ Len(states[scenes["X"]].cancel) = 1

\* the task is about to evaluate an at whose time word is not sunrise or sunset
AtUnknownWord(t) ==
    /\ Evaluating(t) /\ mu = t /\ todo[t] # <<>>
    /\ Head1(t).st.op = "at"
    /\ Head1(t).st.value \notin {"sunrise", "sunset"}

\* C28: an at statement whose time word is not sunrise or sunset fails at
\* evaluation with an unknown-time-word error: the step adds no event to the
\* scheduler, spawns no task and leaves the owning scene's cancel list (and
\* every other) unchanged.
UnknownTimeWordIsRejected ==
    [][\A t \in DOMAIN pc :
        (AtUnknownWord(t) /\ todo'[t] # todo[t]) =>
            /\ err'[t] = "unknown time word"
            /\ todo'[t] = <<>>
            /\ events' = events
            /\ h' = h
            /\ DOMAIN pc' = DOMAIN pc
            /\ states' = states]_vars
\* `start Y` failed on the `at noon` of Y's block, after the `at sunrise`
\* before it had been scheduled: Y's cancel list holds that one handle only
AtNoonRejected ==
    /\ script = 10 /\ nextLine = 3
    /\ pc[Main] = "idle" /\ err[Main] = "unknown time word"
    /\ Len(h) = 1
    /\ scenes["Y"] # 0 /\ Len(states[scenes["Y"]].cancel) = 1

\* C29: the lexer terminates on every input: once started, its token stream
\* ends; and an error token (unterminated string, unknown character) is the
\* last token sent, the lexer having stopped.
ErrorTokenIsLast ==
    \A i \in 1..Len(tokens.sent) :
        tokens.sent[i].Type = "TokenError"
            => i = Len(tokens.sent) /\ lexer.state = "nil"
LexerTerminates ==
    /\ (lexer.state # "none") ~> tokens.closed
    /\ []ErrorTokenIsLast

\* the last call was Eval of the program `set a/b on`
EvalSetAB ==
    /\ call.op = "Eval"
    /\ call.stmt = "set"
    /\ call.path = <<"a", "/", "b">>
    /\ call.value = "on"
OneSetAB == call.out = <<busSet(<<"a">>, <<"b">>, "on")>>
\* C30 as stated: Eval of the program `set a/b on` issues exactly one
\* underlying set with (toplevel a, item b, value "on") and returns a nil
\* result.
SetProgramReturnsNil == EvalSetAB => OneSetAB /\ call.res = NilResult
\* C30 amended: Eval of the program `set a/b on` issues exactly one underlying
\* set with (toplevel a, item b, value "on"); when the set succeeds it returns
\* a list-result whose one entry is the nil result of the set, and when the
\* set fails a nil result with the error.
SetProgramReturnsListOfNil ==
    EvalSetAB =>
        /\ OneSetAB
        /\ call.err = NoErr => call.res = [kind |-> "listResult", items |-> <<"nil">>]
        /\ call.err # NoErr => call.res = NilResult
SetABEvaluated == EvalSetAB /\ OneSetAB /\ call.err = NoErr /\ call.res.kind = "listResult"

\* C31: for every `when` subscription the callbacks are entered one at a time
\* and in the order of the status events: in its log every callback entered
\* is followed by its return before the next is entered, and the events the
\* callbacks are for come in increasing order of arrival.
CallbacksInOrder ==
    \A i \in DOMAIN h :
        h[i].kind = "when" =>
            \A k \in 1..Len(h[i].log) :
                IF k % 2 = 1
                THEN /\ h[i].log[k][1] = "in"
                     /\ k > 2 => h[i].log[k][2] > h[i].log[k - 2][2]
                ELSE h[i].log[k] = <<"out", h[i].log[k - 1][2]>>
\* a subscription whose callback ran for the first event and then for the
\* second, each to its end
TwoCallbacksInTurn ==
    \E i \in DOMAIN h :
        /\ h[i].kind = "when"
        /\ ~h[i].st.wait
        /\ h[i].log = <<<<"in", 1>>, <<"out", 1>>, <<"in", 2>>, <<"out", 2>>>>

\* texts of the forms the claim C32 is about
IsDigits(s) == Len(s) >= 1 /\ \A k \in 1..Len(s) : IsDigit(s[k])
Units == {<<"u">>, <<"s">>, <<"m">>, <<"h">>, <<"m", "s">>}
IsDurationText(s) ==
    \E k \in 1..Len(s) : IsDigits(SubSeq(s, 1, k)) /\ SubSeq(s, k + 1, Len(s)) \in Units
DecimalEnd(s) ==
    {m \in 1..Len(s) :
        \E k \in 1..m : /\ IsDigits(SubSeq(s, 1, k))
                        /\ k + 1 < m
                        /\ s[k + 1] = "."
                        /\ IsDigits(SubSeq(s, k + 2, m))
                        /\ SubSeq(s, m + 1, Len(s)) \in Units}
\* C32: once the input is lexed, a run of digits directly followed by a unit
\* (u, s, m, h, or ms) has given one duration token with the whole text; a
\* run of digits with a decimal part followed by a unit has given a number
\* token with the digits and a word token with the unit.
DurationTokens ==
    tokens.closed =>
        /\ IsDurationText(lexer.input) =>
              tokens.sent = <<Token("TokenDuration", lexer.input), Token("TokenEOF", <<>>)>>
        /\ \A m \in DecimalEnd(lexer.input) :
              tokens.sent = <<Token("TokenNumber", SubSeq(lexer.input, 1, m)),
                              Token("TokenWord", SubSeq(lexer.input, m + 1, Len(lexer.input))),
                              Token("TokenEOF", <<>>)>>
\* a decimal number with ms behind it, and (in another run) a duration in ms, lexed
DecimalWithUnitLexed ==
    /\ tokens.closed
    /\ lexer.input = <<"1", "1", ".", "1", "m", "s">>
    /\ Len(tokens.sent) = 3

\* `stop n` was the last statement on the name n and it has returned
StopReturned(n) ==
    /\ ops[n] # <<>>
    /\ Last(ops[n]) = "stop:ok"
    /\ ~\E t \in DOMAIN pc : Evaluating(t) /\ mu = t
\* C33: after `stop X` has returned, Upcoming reports no event registered by
\* an `at` statement of X, and the event list is exactly the events added
\* whose cancel handle has not been invoked, so that the events of the other
\* scenes and of the global scene are still reported.
StoppedSceneHasNoEvents ==
    \A n \in SceneNames :
        StopReturned(n) =>
            /\ \A k \in DOMAIN Upcoming(now) : Home(h[events[k]].st.pos) # n
            /\ \A i \in DOMAIN h :
                  IsTimer(i) =>
                     (h[i].cancelled = 0 <=> \E k \in DOMAIN Upcoming(now) : events[k] = i)

\* C34: no registration is orphaned: every live timer or subscription has its
\* cancel handle in the cancel list of the global scene or of a scene state
\* that is in the scene map.
NoOrphanRegistration ==
    \A i \in DOMAIN h :
        Live(i) =>
            \E s \in DOMAIN states :
                /\ InList(i, s)
                /\ s = GlobalScene \/ \E n \in SceneNames : scenes[n] = s

\* C35: stopping a scene retracts its pending delayed work: a block delayed
\* by the `wait` of a `when` of scene X, for an event that arrived before the
\* subscription was cancelled, does not start being evaluated once `stop X`
\* has completed.
StopRetractsDelayedWork ==
    [][\A j \in DOMAIN d :
         (/\ pc[DTask(j)] = "wait"
          /\ d[j].cancelled = 0
          /\ states[d[j].scene].stopLen >= 0)
            => pc'[DTask(j)] = "wait"]_vars

\* C36: whatever the scripts and the interleavings of definitions, starts,
\* stops and callbacks, no cancel handle is invoked more than once, and the
\* process never dies of the close of a closed cancel channel: a panic is the
\* overflow of the stack by nested starts only.
NoCancelInvokedTwice ==
    /\ \A i \in DOMAIN h : h[i].cancelled <= 1
    /\ panicked => \E t \in DOMAIN pc : Evaluating(t) /\ Depth(t) >= MaxDepth
\* a scene started twice, stopped and stopped again: its two handles were
\* invoked once each
StoppedTwiceInvokedOnce ==
    \E s \in DOMAIN states \ {GlobalScene} :
        /\ ops[states[s].name] = <<"stop:ok", "stop:err">>
        /\ states[s].runs = 2
        /\ states[s].stopLen = 2
        /\ \A k \in 1..2 : h[states[s].cancel[k]].cancelled = 1
        /\ ~panicked

\* C37: Eval terminates for every finite program: the evaluation of `start X`
\* comes to its end, also when X's block starts X again; it never nests
\* evalStartScene calls until the goroutine stack overflows.
EvalTerminates ==
    \A t \in DOMAIN pc :
        ~(panicked /\ Evaluating(t) /\ Depth(t) >= MaxDepth /\ Head1(t).st.op = "start")

AtOnClosedSchedule(t) ==
    /\ Evaluating(t) /\ mu = t /\ todo[t] # <<>>
    /\ Head1(t).st.op = "at"
    /\ Head1(t).st.value \in TimeWords
    /\ schedClosed

\* C38: once the scheduler is closed, an `at` statement fails with the
\* schedule-closed error of Add: no task is spawned, no event is appended,
\* and the cancel list of the owning scene (and every other) is unchanged.
AtAfterCloseIsRejected ==
    [][\A t \in DOMAIN pc :
        (AtOnClosedSchedule(t) /\ todo'[t] # todo[t]) =>
            /\ err'[t] = "schedule closed"
            /\ todo'[t] = <<>>
            /\ events' = events
            /\ h' = h
            /\ DOMAIN pc' = DOMAIN pc
            /\ states' = states]_vars
\* Close has returned and then `start X` failed on the `at` of X's block:
\* X's cancel list is empty and the scheduler has no event
AtAfterCloseFailed ==
    /\ closeCalls >= 1
    /\ pc[Main] = "idle" /\ err[Main] = "schedule closed"
    /\ scenes["X"] # 0 /\ states[scenes["X"]].cancel = <<>>
    /\ states[scenes["X"]].block # <<>> /\ states[scenes["X"]].block[1].op = "at"
    /\ events = <<>> /\ h = <<>>

\* C39: every Eval returns: there is no state in which a task holding the
\* evaluator mutex waits in Subscribe for the topic's subscription lock, the
\* bus delivery holds that lock blocked sending a status event to a `when`
\* task, and that task is in its callback waiting for the evaluator mutex.
NoSubscribeDeadlock ==
    ~\E t \in DOMAIN pc :
        /\ Evaluating(t) /\ mu = t /\ todo[t] # <<>>
        /\ Head1(t).st.op = "subscribe"
        /\ cMu = t
        /\ subMu = Bus
        /\ busIdx >= 1 /\ busIdx <= Len(subs)
        /\ pc[HTask(subs[busIdx])] = "cb"

\* a task is inside the stop of the scene state s
BeingStopped(s) ==
    \E t \in DOMAIN pc :
        /\ Evaluating(t)
        /\ \E k \in 1..Len(todo[t]) : todo[t][k].st.op = "delete" /\ todo[t][k].st.ref = s
\* the states ever defined under the name n
Defined(n) == {s \in DOMAIN states : states[s].name = n}
\* C40: `stop X` affects only X: no handle of the global scene is ever
\* invoked; the handles of a scene in the map that is not being stopped are
\* not invoked; a name is in the map from its latest definition until its own
\* stop, whatever is done to other names; and no cancel list loses a handle.
StopAffectsOnlyX ==
    /\ \A k \in 1..Len(states[GlobalScene].cancel) :
          h[states[GlobalScene].cancel[k]].cancelled = 0
    /\ \A n \in SceneNames :
          (scenes[n] # 0 /\ ~BeingStopped(scenes[n])) =>
             \A k \in 1..Len(states[scenes[n]].cancel) :
                h[states[scenes[n]].cancel[k]].cancelled = 0
    /\ \A n \in SceneNames :
          scenes[n] = IF Defined(n) = {} \/ states[Max(Defined(n))].stopLen >= 0
                      THEN 0 ELSE Max(Defined(n))
    /\ \A i \in DOMAIN h : InList(i, h[i].scene)
\* Y has been stopped and its handle invoked, while X is in the map with a
\* handle and the global scene has one, both not invoked
StoppedYOnly ==
    /\ scenes["Y"] = 0
    /\ \E s \in Defined("Y") :
          states[s].stopLen >= 1 /\ h[states[s].cancel[1]].cancelled = 1
    /\ scenes["X"] # 0
    /\ states[scenes["X"]].cancel # <<>>
    /\ h[states[scenes["X"]].cancel[1]].cancelled = 0
    /\ states[GlobalScene].cancel # <<>>
    /\ h[states[GlobalScene].cancel[1]].cancelled = 0
====
